---- MODULE Spec2Model ----
(***************************************************************************)
(* Cinetica: kinematic equation engine.                                    *)
(*                                                                         *)
(* Python floats are modelled as exact real numbers of the form            *)
(* (p + s*sqrt(r)) / q, which is closed under every operation the          *)
(* uniformly accelerated rectilinear motion performs on its inputs         *)
(* (+, -, *, /, **2, math.sqrt of a rational).  "Within floating           *)
(* tolerance" therefore reads as exact equality.                           *)
(***************************************************************************)
EXTENDS Integers, Sequences, FiniteSets, TLC

(***************************************************************************)
(* Bounds of the explored input space.                                     *)
(***************************************************************************)
\* initial position x0 ranges over -MaxX0..MaxX0
MaxX0 == 1
\* initial velocity v0 and acceleration a range over -MaxCoef..MaxCoef
MaxCoef == 2
\* target positions range over -MaxPos..MaxPos
MaxPos == 3
\* elapsed times range over k/2 for k in -MaxTiempo2..MaxTiempo2
MaxTiempo2 == 4

(***************************************************************************)
(* Exact arithmetic on numbers (p + s*sqrt(r)) / q.                        *)
(***************************************************************************)
Abs(n) == IF n < 0 THEN -n ELSE n

SignInt(n) == IF n < 0 THEN -1 ELSE IF n > 0 THEN 1 ELSE 0

RECURSIVE Gcd(_, _)
Gcd(m, n) == IF n = 0 THEN m ELSE Gcd(n, m % n)

\* floor of the square root of a natural number
RECURSIVE ISqrt(_)
ISqrt(n) ==
  IF n < 2 THEN n
  ELSE LET h == 2 * ISqrt(n \div 4)
       IN  IF (h + 1) * (h + 1) <= n THEN h + 1 ELSE h

\* canonical form: q > 0, gcd(p, s, q) = 1, r = 0 when s = 0
Norm(p, s, r, q) ==
  LET sg == IF q < 0 THEN -1 ELSE 1
      g0 == Gcd(Gcd(Abs(p), Abs(s)), Abs(q))
      g  == IF g0 = 0 THEN 1 ELSE g0
  IN  [p |-> (sg * p) \div g,
       s |-> (sg * s) \div g,
       r |-> IF s = 0 THEN 0 ELSE r,
       q |-> Abs(q) \div g]

Rat(n, d) == Norm(n, 0, 0, d)

Zero == Rat(0, 1)

\* the radicand two operands share
Rad(x, y) == IF x.s # 0 THEN x.r ELSE y.r

Add(x, y) == Norm(x.p * y.q + y.p * x.q, x.s * y.q + y.s * x.q, Rad(x, y), x.q * y.q)

Neg(x) == [x EXCEPT !.p = -x.p, !.s = -x.s]

Sub(x, y) == Add(x, Neg(y))

Mul(x, y) ==
  Norm(x.p * y.p + x.s * y.s * Rad(x, y), x.p * y.s + x.s * y.p, Rad(x, y), x.q * y.q)

\* x / y for a rational y # 0
Div(x, y) == Norm(x.p * y.q, x.s * y.q, x.r, x.q * y.p)

\* sign of p + s*sqrt(r) (q > 0)
Sign(x) ==
  IF x.s = 0 THEN SignInt(x.p)
  ELSE IF x.p = 0 THEN SignInt(x.s)
  ELSE IF SignInt(x.p) = SignInt(x.s) THEN SignInt(x.p)
  ELSE IF x.p * x.p > x.s * x.s * x.r THEN SignInt(x.p)
  ELSE IF x.p * x.p < x.s * x.s * x.r THEN SignInt(x.s)
  ELSE 0

Lt(x, y) == Sign(Sub(x, y)) < 0

Geq(x, y) == Sign(Sub(x, y)) >= 0

\* math.sqrt of a rational x >= 0: sqrt(p/q) = sqrt(p*q)/q
Sqrt(x) ==
  LET m == Abs(x.p * x.q)
      k == ISqrt(m)
  IN  IF k * k = m THEN Rat(k, x.q) ELSE Norm(0, 1, m, x.q)

(***************************************************************************)
(* Outcomes of a call: a float, a list of floats, or a raised exception.   *)
(***************************************************************************)
Float(x) == [tipo |-> "float", valor |-> <<x>>, error |-> ""]

Lista(xs) == [tipo |-> "list", valor |-> xs, error |-> ""]

Raise(e) == [tipo |-> "raise", valor |-> <<>>, error |-> e]

\* ValueError("El tiempo no puede ser negativo.")
InvalidArgument == "El tiempo no puede ser negativo"
\* ValueError("No se puede calcular la velocidad real para esta posicion ...")
VelocidadNoReal == "No se puede calcular la velocidad real"
\* ValueError matched by "No hay soluciones reales"
NoRealSolution == "No hay soluciones reales"
\* ValueError matched by "El tiempo calculado es negativo"
NegativeTime == "El tiempo calculado es negativo"
\* ValueError matched by "No se puede alcanzar la posicion final"
Unreachable == "No se puede alcanzar la posicion final"
\* Python's float division by zero
ZeroDivisionError == "ZeroDivisionError"

(***************************************************************************)
(* MovimientoRectilineoUniformementeVariado (MRUV).                        *)
(***************************************************************************)
\* the statements of the class body, in source order: name and line of each def
MRUV_ClassBody ==
  << [nombre |-> "__init__", linea |-> 10],
     [nombre |-> "posicion", linea |-> 23],
     [nombre |-> "velocidad", linea |-> 40],
     [nombre |-> "velocidad_sin_tiempo", linea |-> 53],
     [nombre |-> "posicion", linea |-> 70],
     [nombre |-> "velocidad", linea |-> 88],
     [nombre |-> "aceleracion", linea |-> 106] >>

\* a bug: the first def of a name would stay bound
MRUV_Resolve_first(nombre) ==
  LET idx == {i \in DOMAIN MRUV_ClassBody : MRUV_ClassBody[i].nombre = nombre}
      i0  == CHOOSE i \in idx : \A j \in idx : i <= j
  IN  MRUV_ClassBody[i0].linea

\* class namespace: each def rebinds its name, so the last def of a name is bound
MRUV_Resolve(nombre) ==
  LET idx == {i \in DOMAIN MRUV_ClassBody : MRUV_ClassBody[i].nombre = nombre}
      i0  == CHOOSE i \in idx : \A j \in idx : i >= j
  IN  MRUV_ClassBody[i0].linea

\* __init__: stores the three initial conditions as given
MRUV_init(posicion_inicial, velocidad_inicial, aceleracion_inicial) ==
  [posicion_inicial |-> posicion_inicial,
   velocidad_inicial |-> velocidad_inicial,
   aceleracion_inicial |-> aceleracion_inicial]

\* a bug: the quadratic term is lost
MRUV_ecuacion_posicion_lineal(self, tiempo) ==
  Add(self.posicion_inicial, Mul(self.velocidad_inicial, tiempo))

\* x0 + v0*t + 0.5*a*t**2
MRUV_ecuacion_posicion(self, tiempo) ==
  Add(Add(self.posicion_inicial, Mul(self.velocidad_inicial, tiempo)),
      Mul(Mul(Rat(1, 2), self.aceleracion_inicial), Mul(tiempo, tiempo)))

\* v0 + a*t
MRUV_ecuacion_velocidad(self, tiempo) ==
  Add(self.velocidad_inicial, Mul(self.aceleracion_inicial, tiempo))

\* def posicion, line 23: no check of the time
MRUV_posicion_L23(self, tiempo) == Float(MRUV_ecuacion_posicion(self, tiempo))

\* def velocidad, line 40: no check of the time
MRUV_velocidad_L40(self, tiempo) == Float(MRUV_ecuacion_velocidad(self, tiempo))

\* a bug: the factor 0.5 of the quadratic term is lost
MRUV_posicion_L70_sin_mitad(self, tiempo) ==
  IF Lt(tiempo, Zero) THEN Raise(InvalidArgument)
  ELSE Float(Add(Add(self.posicion_inicial, Mul(self.velocidad_inicial, tiempo)),
                 Mul(self.aceleracion_inicial, Mul(tiempo, tiempo))))

\* def posicion, line 70
MRUV_posicion_L70(self, tiempo) ==
  IF Lt(tiempo, Zero) THEN Raise(InvalidArgument)
  ELSE Float(MRUV_ecuacion_posicion(self, tiempo))

\* a bug: the acceleration term is lost
MRUV_velocidad_L88_sin_aceleracion(self, tiempo) ==
  IF Lt(tiempo, Zero) THEN Raise(InvalidArgument)
  ELSE Float(self.velocidad_inicial)

\* def velocidad, line 88
MRUV_velocidad_L88(self, tiempo) ==
  IF Lt(tiempo, Zero) THEN Raise(InvalidArgument)
  ELSE Float(MRUV_ecuacion_velocidad(self, tiempo))

\* mruv.posicion(tiempo): the def the class namespace binds
MRUV_posicion(self, tiempo) ==
  IF MRUV_Resolve("posicion") = 70 THEN MRUV_posicion_L70(self, tiempo)
  ELSE MRUV_posicion_L23(self, tiempo)

\* mruv.velocidad(tiempo): the def the class namespace binds
MRUV_velocidad(self, tiempo) ==
  IF MRUV_Resolve("velocidad") = 88 THEN MRUV_velocidad_L88(self, tiempo)
  ELSE MRUV_velocidad_L40(self, tiempo)

\* a bug: aceleracion would reject a negative time as posicion and velocidad do
MRUV_aceleracion_con_guarda(self, tiempo) ==
  IF tiempo # <<>> /\ Lt(tiempo[1], Zero) THEN Raise(InvalidArgument)
  ELSE Float(self.aceleracion_inicial)

\* mruv.aceleracion(tiempo=None): the time, given or not, is not read
MRUV_aceleracion(self, tiempo) == Float(self.aceleracion_inicial)

\* v_squared = v0**2 + 2*a*delta_x
MRUV_v_squared(self, posicion) ==
  LET delta_x == Sub(posicion, self.posicion_inicial)
  IN  Add(Mul(self.velocidad_inicial, self.velocidad_inicial),
          Mul(Mul(Rat(2, 1), self.aceleracion_inicial), delta_x))

\* 1 if v0 + a*(posicion - x0) >= 0 else -1
MRUV_signo(self, posicion) ==
  IF Geq(Add(self.velocidad_inicial,
             Mul(self.aceleracion_inicial, Sub(posicion, self.posicion_inicial))), Zero)
  THEN Rat(1, 1) ELSE Rat(-1, 1)

\* a bug: the boundary v_squared = 0 is rejected too
MRUV_velocidad_sin_tiempo_estricta(self, posicion) ==
  IF ~ Lt(Zero, MRUV_v_squared(self, posicion)) THEN Raise(VelocidadNoReal)
  ELSE Float(Mul(Sqrt(MRUV_v_squared(self, posicion)), MRUV_signo(self, posicion)))

\* a bug: the sign is dropped, the principal root returned
MRUV_velocidad_sin_tiempo_sin_signo(self, posicion) ==
  IF Lt(MRUV_v_squared(self, posicion), Zero) THEN Raise(VelocidadNoReal)
  ELSE Float(Sqrt(MRUV_v_squared(self, posicion)))

\* mruv.velocidad_sin_tiempo(posicion)
MRUV_velocidad_sin_tiempo(self, posicion) ==
  IF Lt(MRUV_v_squared(self, posicion), Zero) THEN Raise(VelocidadNoReal)
  ELSE Float(Mul(Sqrt(MRUV_v_squared(self, posicion)), MRUV_signo(self, posicion)))

(***************************************************************************)
(* tiempo_por_posicion: the inverse solver (design section 4.7).           *)
(***************************************************************************)
\* x / y as Python evaluates it: raises when y is zero
TryDiv(x, y) == IF Sign(y) = 0 THEN Raise(ZeroDivisionError) ELSE Float(Div(x, y))

\* the elements of a sequence of times that are >= 0
FiltrarNoNegativos(ts) == SelectSeq(ts, LAMBDA t : Geq(t, Zero))

\* the distinct elements of a sequence, in ascending order
RECURSIVE OrdenarAsc(_)
OrdenarAsc(S) ==
  IF S = {} THEN <<>>
  ELSE LET m == CHOOSE x \in S : \A y \in S : Geq(y, x)
       IN  <<m>> \o OrdenarAsc(S \ {m})

SinDuplicados(ts) == {ts[i] : i \in DOMAIN ts}

\* a bug: the zero-velocity case is not tested before dividing
MRUV_tiempo_lineal_sin_guarda(v0, dx) ==
  LET t == TryDiv(dx, v0)
  IN  IF t.tipo = "raise" THEN t
      ELSE IF Lt(t.valor[1], Zero) THEN Raise(NegativeTime)
      ELSE Lista(t.valor)

\* linear branch (a = 0)
MRUV_tiempo_lineal(v0, dx) ==
  IF Sign(v0) = 0
  THEN IF Sign(dx) = 0 THEN Lista(<<Zero>>) ELSE Raise(Unreachable)
  ELSE LET t == TryDiv(dx, v0)
       IN  IF t.tipo = "raise" THEN t
           ELSE IF Lt(t.valor[1], Zero) THEN Raise(NegativeTime)
           ELSE Lista(t.valor)

\* the two roots (-v0 + sqrt(D))/a and (-v0 - sqrt(D))/a, D >= 0, a # 0
MRUV_raices(v0, a, D) ==
  << Div(Add(Neg(v0), Sqrt(D)), a), Div(Sub(Neg(v0), Sqrt(D)), a) >>

\* a bug: the discriminant is tested with <= and the vertex is lost
MRUV_tiempo_cuadratico_estricto(v0, a, dx) ==
  LET D == Add(Mul(v0, v0), Mul(Mul(Rat(2, 1), a), dx))
  IN  IF ~ Lt(Zero, D) THEN Raise(NoRealSolution)
      ELSE LET ts == OrdenarAsc(SinDuplicados(FiltrarNoNegativos(MRUV_raices(v0, a, D))))
           IN  IF ts = <<>> THEN Raise(NegativeTime) ELSE Lista(ts)

\* a bug: the discriminant is not tested, and math.sqrt rejects a negative one
MRUV_tiempo_cuadratico_sin_discriminante(v0, a, dx) ==
  LET D == Add(Mul(v0, v0), Mul(Mul(Rat(2, 1), a), dx))
  IN  IF Lt(D, Zero) THEN Raise("math domain error")
      ELSE LET ts == OrdenarAsc(SinDuplicados(FiltrarNoNegativos(MRUV_raices(v0, a, D))))
           IN  IF ts = <<>> THEN Raise(NegativeTime) ELSE Lista(ts)

\* a bug: the roots are returned as computed, unfiltered and unsorted
MRUV_tiempo_cuadratico_sin_filtro(v0, a, dx) ==
  LET D == Add(Mul(v0, v0), Mul(Mul(Rat(2, 1), a), dx))
  IN  IF Lt(D, Zero) THEN Raise(NoRealSolution)
      ELSE Lista(MRUV_raices(v0, a, D))

\* quadratic branch (a # 0): 0.5*a*t**2 + v0*t - dx = 0
MRUV_tiempo_cuadratico(v0, a, dx) ==
  LET D == Add(Mul(v0, v0), Mul(Mul(Rat(2, 1), a), dx))
  IN  IF Lt(D, Zero) THEN Raise(NoRealSolution)
      ELSE LET ts == OrdenarAsc(SinDuplicados(FiltrarNoNegativos(MRUV_raices(v0, a, D))))
           IN  IF ts = <<>> THEN Raise(NegativeTime) ELSE Lista(ts)

\* mruv.tiempo_por_posicion(posicion_final)
MRUV_tiempo_por_posicion(self, posicion_final) ==
  LET dx == Sub(posicion_final, self.posicion_inicial)
  IN  IF Sign(self.aceleracion_inicial) = 0
      THEN MRUV_tiempo_lineal(self.velocidad_inicial, dx)
      ELSE MRUV_tiempo_cuadratico(self.velocidad_inicial, self.aceleracion_inicial, dx)

(***************************************************************************)
(* Inputs.                                                                 *)
(***************************************************************************)
Coefs == {Rat(k, 1) : k \in -MaxCoef .. MaxCoef}

Origenes == {Rat(k, 1) : k \in -MaxX0 .. MaxX0}

\* the motions the test suites and the design's scenarios construct, each with
\* the target positions and the times it is queried with
MRUV_Escenarios ==
  { [self |-> MRUV_init(Rat(0, 1), Rat(10, 1), Rat(-2, 1)),
     posiciones |-> {Rat(24, 1), Rat(25, 1), Rat(30, 1)},
     tiempos |-> {Rat(4, 1), Rat(5, 1), Rat(6, 1)}],
    [self |-> MRUV_init(Rat(0, 1), Rat(-5, 1), Rat(2, 1)),
     posiciones |-> {Rat(-4, 1)}, tiempos |-> {}],
    [self |-> MRUV_init(Rat(5, 1), Rat(3, 1), Rat(0, 1)),
     posiciones |-> {Rat(11, 1)}, tiempos |-> {Rat(5, 1), Rat(10, 1)}],
    [self |-> MRUV_init(Rat(10, 1), Rat(2, 1), Rat(0, 1)),
     posiciones |-> {Rat(5, 1)}, tiempos |-> {}],
    [self |-> MRUV_init(Rat(7, 1), Rat(0, 1), Rat(0, 1)),
     posiciones |-> {Rat(7, 1), Rat(10, 1)}, tiempos |-> {}],
    [self |-> MRUV_init(Rat(0, 1), Rat(1, 1), Rat(1, 1)),
     posiciones |-> {Rat(-1, 1)}, tiempos |-> {}],
    [self |-> MRUV_init(Rat(2, 1), Rat(3, 1), Rat(3, 2)),
     posiciones |-> {}, tiempos |-> {Rat(4, 1)}] }

MRUV_Variantes ==
  {MRUV_init(x0, v0, a) : x0 \in Origenes, v0 \in Coefs, a \in Coefs}
  \cup {e.self : e \in MRUV_Escenarios}

\* the target positions a motion is queried with
Posiciones(self) ==
  {Rat(k, 1) : k \in -MaxPos .. MaxPos}
  \cup UNION {e.posiciones : e \in {f \in MRUV_Escenarios : f.self = self}}

\* the times a motion is queried with
Tiempos(self) ==
  {Rat(k, 2) : k \in -MaxTiempo2 .. MaxTiempo2}
  \cup UNION {e.tiempos : e \in {f \in MRUV_Escenarios : f.self = self}}

(***************************************************************************)
(* State: one motion object and the last call made on it.                  *)
(***************************************************************************)
VARIABLES
  mruv,       \* the fields of the uniformly accelerated motion
  objeto,     \* the fields of a motion object of any other class
  mem,        \* the arrays, lists and dicts that references point to
  metodo,     \* name of the last method called
  argumento,  \* its argument: <<x>>, or <<>> when none was given
  origen,     \* the call whose result supplied the argument, if any
  resultado,  \* its outcome
  traza,      \* what the last plotting call did to the object and to pyplot
  logging     \* the loggers of the logging module and logger.py's _root_logger

vars == <<mruv, objeto, mem, metodo, argumento, origen, resultado, traza, logging>>

\* LOG_LEVELS: logging.DEBUG, logging.INFO, logging.WARNING; a logger whose
\* level was never set has level 0
DEBUG == 10
INFO == 20
WARNING == 30

\* the loggers before logger.py is imported: none has a level or a handler;
\* logging's own root logger is at WARNING
LOG_Fresco ==
  [loggers |-> [n \in {"root", "cinetica", "cinetica.mru"} |->
                  [level |-> IF n = "root" THEN WARNING ELSE 0,
                   handlers |-> <<>>, propagate |-> TRUE]],
   root_logger |-> "None",
   importado |-> FALSE]

\* the loggers after 'import cinetica' in a fresh interpreter
LOG_Importado ==
  [loggers |-> [n \in {"root", "cinetica", "cinetica.mru"} |->
                  IF n = "cinetica.mru"
                  THEN [level |-> 0, handlers |-> <<>>, propagate |-> TRUE]
                  ELSE [level |-> INFO, handlers |-> <<"console">>,
                        propagate |-> (n = "root")]],
   root_logger |-> "cinetica",
   importado |-> TRUE]

\* nothing was plotted: no style set, no method called, no figure, no show
SinTraza == [estilo |-> 0, llamadas |-> <<>>, figuras |-> 0, curvas |-> <<>>, shows |-> 0]

\* no object of the other classes has been constructed
Ninguno == [clase |-> "None"]

SinOrigen == [de |-> "", valor |-> <<>>]

\* a time: one of the caller's, or one returned by the last tiempo_por_posicion
EntradasTiempo ==
  {[arg |-> t, origen |-> SinOrigen] : t \in Tiempos(mruv)}
  \cup
  (IF metodo = "tiempo_por_posicion" /\ resultado.tipo = "list"
   THEN {[arg |-> resultado.valor[i],
          origen |-> [de |-> "tiempo_por_posicion", valor |-> argumento]] :
            i \in DOMAIN resultado.valor}
   ELSE {})

\* a position: one of the caller's, or the one returned by the last posicion
EntradasPosicion ==
  {[arg |-> x, origen |-> SinOrigen] : x \in Posiciones(mruv)}
  \cup
  (IF metodo = "posicion" /\ resultado.tipo = "float"
   THEN {[arg |-> resultado.valor[1], origen |-> [de |-> "posicion", valor |-> argumento]]}
   ELSE {})

Init ==
  /\ mruv \in MRUV_Variantes
  /\ objeto = Ninguno
  /\ mem = <<>>
  /\ metodo = "__init__"
  /\ argumento = <<>>
  /\ origen = SinOrigen
  /\ resultado = [tipo |-> "None", valor |-> <<>>, error |-> ""]
  /\ traza = SinTraza
  /\ logging = LOG_Importado

CallPosicion ==
  \E e \in EntradasTiempo :
    /\ metodo' = "posicion"
    /\ argumento' = <<e.arg>>
    /\ origen' = e.origen
    /\ resultado' = MRUV_posicion(mruv, e.arg)
    /\ UNCHANGED <<mruv, objeto, mem, traza, logging>>

CallVelocidad ==
  \E t \in Tiempos(mruv) :
    /\ metodo' = "velocidad"
    /\ argumento' = <<t>>
    /\ origen' = SinOrigen
    /\ resultado' = MRUV_velocidad(mruv, t)
    /\ UNCHANGED <<mruv, objeto, mem, traza, logging>>

CallAceleracion ==
  \E arg \in {<<t>> : t \in Tiempos(mruv)} \cup {<<>>} :
    /\ metodo' = "aceleracion"
    /\ argumento' = arg
    /\ origen' = SinOrigen
    /\ resultado' = MRUV_aceleracion(mruv, arg)
    /\ UNCHANGED <<mruv, objeto, mem, traza, logging>>

CallVelocidadSinTiempo ==
  \E e \in EntradasPosicion :
    /\ metodo' = "velocidad_sin_tiempo"
    /\ argumento' = <<e.arg>>
    /\ origen' = e.origen
    /\ resultado' = MRUV_velocidad_sin_tiempo(mruv, e.arg)
    /\ UNCHANGED <<mruv, objeto, mem, traza, logging>>

CallTiempoPorPosicion ==
  \E e \in EntradasPosicion :
    /\ metodo' = "tiempo_por_posicion"
    /\ argumento' = <<e.arg>>
    /\ origen' = e.origen
    /\ resultado' = MRUV_tiempo_por_posicion(mruv, e.arg)
    /\ UNCHANGED <<mruv, objeto, mem, traza, logging>>

Next ==
  \/ CallPosicion
  \/ CallVelocidad
  \/ CallAceleracion
  \/ CallVelocidadSinTiempo
  \/ CallTiempoPorPosicion

SpecMRUV == Init /\ [][Next]_vars

(***************************************************************************)
(* Properties.                                                             *)
(***************************************************************************)
\* the quantities the properties speak of, for the call the state records
C_x0 == mruv.posicion_inicial
C_v0 == mruv.velocidad_inicial
C_a == mruv.aceleracion_inicial
C_dx == Sub(argumento[1], C_x0)
\* v0^2 + 2*a*(x - x0): the discriminant, and the square of the time-free velocity
C_D == Add(Mul(C_v0, C_v0), Mul(Rat(2, 1), Mul(C_a, C_dx)))
\* v0 + a*dx: the expression that resolves the sign
C_signo == Add(C_v0, Mul(C_a, C_dx))
\* Vieta: the roots of 0.5*a*t^2 + v0*t - dx = 0 have sum -2*v0/a and product -2*dx/a
C_suma == -(Sign(C_v0) * Sign(C_a))
C_producto == -(Sign(C_dx) * Sign(C_a))
C_Escenario == MRUV_init(Rat(0, 1), Rat(10, 1), Rat(-2, 1))

\* C1: every time returned by tiempo_por_posicion(x), passed to posicion, gives
\* back x, and posicion does not raise.
C1_RoundTrip ==
  (metodo = "posicion" /\ origen.de = "tiempo_por_posicion")
    => resultado = Float(origen.valor[1])

\* an irrational root of the quadratic branch went round the trip
C1_Witness ==
  /\ metodo = "posicion"
  /\ origen.de = "tiempo_por_posicion"
  /\ argumento[1].s # 0
  /\ Sign(argumento[1]) > 0
  /\ resultado = Float(origen.valor[1])

\* C2: a returned solution set has one or two elements, all >= 0, strictly
\* ascending; a double root (discriminant 0) yields one element; for x0=0,
\* v0=10, a=-2 the target 24 gives {4, 6} and the target 25 gives {5}.
C2_SolutionSet ==
  metodo = "tiempo_por_posicion" =>
    /\ resultado.tipo = "list" =>
         LET ts == resultado.valor
         IN  /\ Len(ts) \in {1, 2}
             /\ \A i \in DOMAIN ts : Geq(ts[i], Zero)
             /\ Len(ts) = 2 => Lt(ts[1], ts[2])
             /\ Sign(C_D) = 0 => Len(ts) = 1
    /\ (mruv = C_Escenario /\ argumento = <<Rat(24, 1)>>)
         => resultado = Lista(<<Rat(4, 1), Rat(6, 1)>>)
    /\ (mruv = C_Escenario /\ argumento = <<Rat(25, 1)>>)
         => resultado = Lista(<<Rat(5, 1)>>)

\* a double root other than zero was returned once
C2_Witness ==
  /\ metodo = "tiempo_por_posicion"
  /\ Sign(C_a) # 0
  /\ Sign(C_D) = 0
  /\ Len(resultado.valor) = 1
  /\ Sign(resultado.valor[1]) > 0

\* C3: in the quadratic branch a negative discriminant fails with
\* NoRealSolution and returns no times; e.g. x0=0, v0=10, a=-2, target 30.
C3_NoRealSolution ==
  (metodo = "tiempo_por_posicion" /\ Sign(C_a) # 0 /\ Lt(C_D, Zero))
    => resultado = Raise(NoRealSolution)

C3_Witness ==
  /\ metodo = "tiempo_por_posicion"
  /\ mruv = C_Escenario
  /\ argumento = <<Rat(30, 1)>>
  /\ resultado = Raise(NoRealSolution)

\* C4: when real roots exist but all are negative the call fails with
\* NegativeTime, which differs from NoRealSolution; no negative root is ever
\* returned; of a negative and a non-negative root only the latter is returned.
C4_NegativeTime ==
  metodo = "tiempo_por_posicion" =>
    /\ (Sign(C_a) # 0 /\ Geq(C_D, Zero) /\ C_producto > 0 /\ C_suma < 0)
         => (resultado = Raise(NegativeTime) /\ resultado # Raise(NoRealSolution))
    /\ (Sign(C_a) = 0 /\ Sign(C_v0) # 0 /\ Sign(C_dx) * Sign(C_v0) < 0)
         => (resultado = Raise(NegativeTime) /\ resultado # Raise(NoRealSolution))
    /\ \A i \in DOMAIN resultado.valor : Geq(resultado.valor[i], Zero)
    /\ (Sign(C_a) # 0 /\ (C_producto < 0 \/ (C_producto = 0 /\ C_suma < 0)))
         => (resultado.tipo = "list" /\ Len(resultado.valor) = 1)

\* both roots of a quadratic lay in the past
C4_Witness ==
  /\ metodo = "tiempo_por_posicion"
  /\ Sign(C_a) # 0
  /\ Lt(Zero, C_D)
  /\ C_producto > 0
  /\ C_suma < 0
  /\ resultado = Raise(NegativeTime)

\* C5: linear branch (a = 0): v0 = 0 gives {0} when target = x0 and Unreachable
\* otherwise; v0 # 0 gives {(target - x0)/v0} when that is >= 0 and
\* NegativeTime when it is < 0; no call divides by zero.
C5_LinearBranch ==
  metodo = "tiempo_por_posicion" =>
    /\ resultado.error # ZeroDivisionError
    /\ Sign(C_a) = 0 =>
         /\ (Sign(C_v0) = 0 /\ Sign(C_dx) = 0) => resultado = Lista(<<Zero>>)
         /\ (Sign(C_v0) = 0 /\ Sign(C_dx) # 0) => resultado = Raise(Unreachable)
         /\ (Sign(C_v0) # 0 /\ Sign(C_dx) * Sign(C_v0) >= 0)
              => /\ resultado.tipo = "list"
                 /\ Len(resultado.valor) = 1
                 /\ Mul(resultado.valor[1], C_v0) = C_dx
         /\ (Sign(C_v0) # 0 /\ Sign(C_dx) * Sign(C_v0) < 0)
              => resultado = Raise(NegativeTime)

\* a motion at rest was asked for a position it is not at
C5_Witness ==
  /\ metodo = "tiempo_por_posicion"
  /\ Sign(C_a) = 0
  /\ Sign(C_v0) = 0
  /\ Sign(C_dx) # 0
  /\ resultado = Raise(Unreachable)

\* C6 as stated: for every t >= 0, tiempo_por_posicion(posicion(t)) succeeds and
\* the returned times include t.
C6_Completeness_Original ==
  (metodo = "tiempo_por_posicion" /\ origen.de = "posicion" /\ Geq(origen.valor[1], Zero))
    => /\ resultado.tipo = "list"
       /\ \E i \in DOMAIN resultado.valor : resultado.valor[i] = origen.valor[1]

\* C6 amended: for every t >= 0, tiempo_por_posicion(posicion(t)) succeeds; the
\* returned times include t unless the motion is at rest (v0 = 0 and a = 0),
\* for which the single time 0 is returned whatever t was.
C6_Completeness ==
  (metodo = "tiempo_por_posicion" /\ origen.de = "posicion" /\ Geq(origen.valor[1], Zero))
    => /\ resultado.tipo = "list"
       /\ (Sign(C_a) # 0 \/ Sign(C_v0) # 0)
            => \E i \in DOMAIN resultado.valor : resultado.valor[i] = origen.valor[1]
       /\ (Sign(C_a) = 0 /\ Sign(C_v0) = 0) => resultado = Lista(<<Zero>>)

\* the later of two times at the same position was found again
C6_Witness ==
  /\ metodo = "tiempo_por_posicion"
  /\ origen.de = "posicion"
  /\ Len(resultado.valor) = 2
  /\ resultado.valor[2] = origen.valor[1]

\* C7: velocidad_sin_tiempo(x) fails with NoRealSolution exactly when
\* v0^2 + 2*a*(x - x0) < 0 and returns a value otherwise, 0 when that is 0.
C7_VelocidadNoReal ==
  metodo = "velocidad_sin_tiempo" =>
    /\ (resultado = Raise(VelocidadNoReal)) <=> Lt(C_D, Zero)
    /\ Geq(C_D, Zero) => resultado.tipo = "float"
    /\ Sign(C_D) = 0 => resultado = Float(Zero)

\* the motion was queried where it turns round
C7_Witness ==
  /\ metodo = "velocidad_sin_tiempo"
  /\ Sign(C_a) # 0
  /\ Sign(C_v0) # 0
  /\ Sign(C_D) = 0
  /\ resultado = Float(Zero)

C10_TiempoNegativo ==
  /\ MRUV_Resolve("posicion") = 70
  /\ MRUV_Resolve("velocidad") = 88
  /\ metodo \in {"posicion", "velocidad"} =>
       /\ Lt(argumento[1], Zero) => resultado = Raise(InvalidArgument)
       /\ Geq(argumento[1], Zero) => resultado.tipo = "float"

C10_Witness ==
  /\ metodo = "velocidad"
  /\ Lt(argumento[1], Zero)
  /\ resultado = Raise(InvalidArgument)

(***************************************************************************)
(* State shared by the specifications of the other classes.                *)
(***************************************************************************)
\* elapsed times passed to the other classes range over k/2, k in -MaxT2..MaxT2
MaxT2 == 2
\* scalar initial conditions of the other classes range over -MaxIni..MaxIni
MaxIni == 2

TiemposConsulta == {Rat(k, 2) : k \in -MaxT2 .. MaxT2}

Iniciales == {Rat(k, 1) : k \in -MaxIni .. MaxIni}

\* the value of a statement that returns nothing
None == [tipo |-> "None", valor |-> <<>>, error |-> ""]

\* before any object of the other classes is constructed
InitObjeto ==
  /\ mruv = MRUV_init(Zero, Zero, Zero)
  /\ objeto = Ninguno
  /\ mem = <<>>
  /\ metodo = ""
  /\ argumento = <<>>
  /\ origen = SinOrigen
  /\ resultado = None
  /\ traza = SinTraza
  /\ logging = LOG_Importado

\* a method call on the live object that touches neither the object nor memory
Consulta(nombre, arg, res) ==
  /\ metodo' = nombre
  /\ argumento' = arg
  /\ origen' = SinOrigen
  /\ resultado' = res
  /\ UNCHANGED <<mruv, objeto, mem, traza, logging>>

\* a constructor call that returned the new instance
Instancia(self) == [tipo |-> "objeto", valor |-> <<self>>, error |-> ""]

\* a constructor call: the name is bound to the instance only if __init__ returns
Construir(arg, r) ==
  /\ objeto = Ninguno
  /\ objeto' = IF r.tipo = "objeto" THEN r.valor[1] ELSE objeto
  /\ metodo' = "__init__"
  /\ argumento' = arg
  /\ origen' = SinOrigen
  /\ resultado' = r
  /\ UNCHANGED <<mruv, mem, traza, logging>>

(***************************************************************************)
(* MovimientoRectilineoUniforme (MRU).                                     *)
(***************************************************************************)
MRU_init(posicion_inicial, velocidad_inicial) ==
  Instancia([clase |-> "MRU",
             posicion_inicial |-> posicion_inicial,
             velocidad_inicial |-> velocidad_inicial])

\* a bug: the initial position would be left out
MRU_posicion_sin_origen(self, tiempo) ==
  IF Lt(tiempo, Zero)
  THEN Raise(InvalidArgument)
  ELSE Float(Mul(self.velocidad_inicial, tiempo))

MRU_posicion(self, tiempo) ==
  IF Lt(tiempo, Zero)
  THEN Raise(InvalidArgument)
  ELSE Float(Add(self.posicion_inicial, Mul(self.velocidad_inicial, tiempo)))

MRU_velocidad(self, tiempo) == Float(self.velocidad_inicial)

MRU_aceleracion(self, tiempo) == Float(Zero)

MRU_Construir ==
  \E x0 \in Iniciales, v0 \in Iniciales :
    Construir(<<x0, v0>>, MRU_init(x0, v0))

MRU_CallPosicion ==
  /\ objeto.clase = "MRU"
  /\ \E t \in TiemposConsulta : Consulta("posicion", <<t>>, MRU_posicion(objeto, t))

MRU_CallVelocidad ==
  /\ objeto.clase = "MRU"
  /\ \E t \in TiemposConsulta : Consulta("velocidad", <<t>>, MRU_velocidad(objeto, t))

MRU_CallAceleracion ==
  /\ objeto.clase = "MRU"
  /\ \E t \in TiemposConsulta : Consulta("aceleracion", <<t>>, MRU_aceleracion(objeto, t))

NextMRU ==
  \/ MRU_Construir
  \/ MRU_CallPosicion
  \/ MRU_CallVelocidad
  \/ MRU_CallAceleracion

SpecMRU == InitObjeto /\ [][NextMRU]_vars

\* C11: the uniform rectilinear motion permits negative elapsed time: for
\* every t, t < 0 included, posicion(t) returns x0 + v0*t without raising.
C11_TiempoNegativoPermitido ==
  (objeto.clase = "MRU" /\ metodo = "posicion")
    => resultado = Float(Add(objeto.posicion_inicial,
                             Mul(objeto.velocidad_inicial, argumento[1])))

(***************************************************************************)
(* Circular motions: shared values.                                        *)
(***************************************************************************)
\* radii passed to the constructors range over -1..MaxRadio
MaxRadio == 2
\* initial angles range over 0..MaxAngulo
MaxAngulo == 1
\* angular velocities and accelerations range over -MaxOmega..MaxOmega
MaxOmega == 1

Radios == {Rat(k, 1) : k \in -1 .. MaxRadio}

Angulos == {Rat(k, 1) : k \in 0 .. MaxAngulo}

Omegas == {Rat(k, 1) : k \in -MaxOmega .. MaxOmega}

\* ValueError("El radio debe ser un valor positivo.")
RadioInvalido == "El radio debe ser un valor positivo"

\* np.array([...]) of computed components
Vector(xs) == [tipo |-> "ndarray", valor |-> xs, error |-> ""]

\* math.inf
Inf == [p |-> 1, s |-> 0, r |-> 0, q |-> 0]

\* x * math.pi and x / math.pi, with math.pi left uninterpreted
PorPi(x) == [tipo |-> "float*pi", valor |-> <<x>>, error |-> ""]

EntrePi(x) == [tipo |-> "float/pi", valor |-> <<x>>, error |-> ""]

\* c*cos(th) + s*sin(th), with math.cos and math.sin left uninterpreted
Cos(th) == [c |-> Rat(1, 1), s |-> Zero, th |-> th]

Sin(th) == [c |-> Zero, s |-> Rat(1, 1), th |-> th]

Escalar(k, u) == [c |-> Mul(k, u.c), s |-> Mul(k, u.s), th |-> u.th]

\* u + v for two components of the same angle
SumaTrig(u, v) == [c |-> Add(u.c, v.c), s |-> Add(u.s, v.s), th |-> u.th]

\* the rest of a method body after a nested call: an exception propagates
Luego(r, F(_)) == IF r.tipo = "raise" THEN r ELSE F(r.valor[1])

(***************************************************************************)
(* MovimientoCircularUniforme (MCU).                                       *)
(***************************************************************************)
\* a bug: a radius of zero would be accepted
MCU_init_acepta_cero(radio, posicion_angular_inicial, velocidad_angular_inicial) ==
  IF Lt(radio, Zero)
  THEN Raise(RadioInvalido)
  ELSE Instancia([clase |-> "MCU",
                  radio |-> radio,
                  posicion_angular_inicial |-> posicion_angular_inicial,
                  velocidad_angular_inicial |-> velocidad_angular_inicial])

MCU_init(radio, posicion_angular_inicial, velocidad_angular_inicial) ==
  IF Geq(Zero, radio)
  THEN Raise(RadioInvalido)
  ELSE Instancia([clase |-> "MCU",
                  radio |-> radio,
                  posicion_angular_inicial |-> posicion_angular_inicial,
                  velocidad_angular_inicial |-> velocidad_angular_inicial])

MCU_posicion_angular(self, tiempo) ==
  IF Lt(tiempo, Zero)
  THEN Raise(InvalidArgument)
  ELSE Float(Add(self.posicion_angular_inicial,
                 Mul(self.velocidad_angular_inicial, tiempo)))

\* a bug: the radius would be applied to the x component only
MCU_posicion_sin_radio(self, tiempo) ==
  IF Lt(tiempo, Zero)
  THEN Raise(InvalidArgument)
  ELSE Luego(MCU_posicion_angular(self, tiempo),
             LAMBDA theta : Vector(<<Escalar(self.radio, Cos(theta)), Sin(theta)>>))

MCU_posicion(self, tiempo) ==
  IF Lt(tiempo, Zero)
  THEN Raise(InvalidArgument)
  ELSE Luego(MCU_posicion_angular(self, tiempo),
             LAMBDA theta : Vector(<<Escalar(self.radio, Cos(theta)),
                                     Escalar(self.radio, Sin(theta))>>))

MCU_velocidad(self, tiempo) ==
  IF Lt(tiempo, Zero)
  THEN Raise(InvalidArgument)
  ELSE LET omega == self.velocidad_angular_inicial
       IN  Luego(MCU_posicion_angular(self, tiempo),
                 LAMBDA theta :
                   Vector(<<Escalar(Mul(Neg(omega), self.radio), Sin(theta)),
                            Escalar(Mul(omega, self.radio), Cos(theta))>>))

MCU_aceleracion(self, tiempo) ==
  IF Lt(tiempo, Zero)
  THEN Raise(InvalidArgument)
  ELSE LET omega == self.velocidad_angular_inicial
           ac    == Mul(Mul(omega, omega), self.radio)
       IN  Luego(MCU_posicion_angular(self, tiempo),
                 LAMBDA theta : Vector(<<Escalar(Neg(ac), Cos(theta)),
                                         Escalar(Neg(ac), Sin(theta))>>))

\* float / float: Python raises ZeroDivisionError on a zero divisor
DivFloat(x, y) == IF y = Zero THEN Raise(ZeroDivisionError) ELSE Float(Div(x, y))

\* a bug: the period would be computed without the zero check
MCU_periodo_sin_guarda(self) ==
  Luego(DivFloat(Rat(2, 1), self.velocidad_angular_inicial), LAMBDA x : PorPi(x))

MCU_periodo(self) ==
  IF self.velocidad_angular_inicial = Zero
  THEN Float(Inf)
  ELSE Luego(DivFloat(Rat(2, 1), self.velocidad_angular_inicial), LAMBDA x : PorPi(x))

MCU_frecuencia(self) ==
  IF self.velocidad_angular_inicial = Zero
  THEN Float(Zero)
  ELSE EntrePi(Div(self.velocidad_angular_inicial, Rat(2, 1)))

(***************************************************************************)
(* MovimientoCircularUniformementeVariado (MCUV).                          *)
(***************************************************************************)
\* the statements of the class body, in source order: name and line of each def
MCUV_ClassBody ==
  << [nombre |-> "__init__", linea |-> 10],
     [nombre |-> "posicion_angular", linea |-> 32],
     [nombre |-> "velocidad_angular", linea |-> 49],
     [nombre |-> "aceleracion_angular", linea |-> 62],
     [nombre |-> "velocidad_tangencial", linea |-> 74],
     [nombre |-> "aceleracion_tangencial", linea |-> 87],
     [nombre |-> "aceleracion_centripeta", linea |-> 100],
     [nombre |-> "aceleracion_total", linea |-> 113],
     [nombre |-> "posicion", linea |-> 128],
     [nombre |-> "velocidad", linea |-> 143],
     [nombre |-> "aceleracion", linea |-> 159],
     [nombre |-> "posicion_angular", linea |-> 176],
     [nombre |-> "posicion", linea |-> 196],
     [nombre |-> "velocidad", linea |-> 213],
     [nombre |-> "aceleracion", linea |-> 231],
     [nombre |-> "velocidad_angular", linea |-> 261],
     [nombre |-> "aceleracion_angular_constante", linea |-> 279] >>

\* a bug: the first def of a name would stay bound
MCUV_Resolve_first(nombre) ==
  LET idx == {i \in DOMAIN MCUV_ClassBody : MCUV_ClassBody[i].nombre = nombre}
      i0  == CHOOSE i \in idx : \A j \in idx : i <= j
  IN  MCUV_ClassBody[i0].linea

\* class namespace: each def rebinds its name, so the last def of a name is bound
MCUV_Resolve(nombre) ==
  LET idx == {i \in DOMAIN MCUV_ClassBody : MCUV_ClassBody[i].nombre = nombre}
      i0  == CHOOSE i \in idx : \A j \in idx : i >= j
  IN  MCUV_ClassBody[i0].linea

MCUV_init(radio, posicion_angular_inicial, velocidad_angular_inicial, aceleracion_angular_inicial) ==
  IF Geq(Zero, radio)
  THEN Raise(RadioInvalido)
  ELSE Instancia([clase |-> "MCUV",
                  radio |-> radio,
                  posicion_angular_inicial |-> posicion_angular_inicial,
                  velocidad_angular_inicial |-> velocidad_angular_inicial,
                  aceleracion_angular_inicial |-> aceleracion_angular_inicial])

\* theta0 + omega0*t + 0.5*alpha*t**2
MCUV_ecuacion_angular(self, tiempo) ==
  Add(Add(self.posicion_angular_inicial,
          Mul(self.velocidad_angular_inicial, tiempo)),
      Mul(Mul(Rat(1, 2), self.aceleracion_angular_inicial), Mul(tiempo, tiempo)))

\* omega0 + alpha*t
MCUV_ecuacion_omega(self, tiempo) ==
  Add(self.velocidad_angular_inicial, Mul(self.aceleracion_angular_inicial, tiempo))

MCUV_posicion_angular_L32(self, tiempo) == Float(MCUV_ecuacion_angular(self, tiempo))

MCUV_posicion_angular_L176(self, tiempo) ==
  IF Lt(tiempo, Zero)
  THEN Raise(InvalidArgument)
  ELSE Float(MCUV_ecuacion_angular(self, tiempo))

MCUV_posicion_angular(self, tiempo) ==
  IF MCUV_Resolve("posicion_angular") = 176
  THEN MCUV_posicion_angular_L176(self, tiempo)
  ELSE MCUV_posicion_angular_L32(self, tiempo)

MCUV_velocidad_angular_L49(self, tiempo) == Float(MCUV_ecuacion_omega(self, tiempo))

MCUV_velocidad_angular_L261(self, tiempo) ==
  IF Lt(tiempo, Zero)
  THEN Raise(InvalidArgument)
  ELSE Float(MCUV_ecuacion_omega(self, tiempo))

MCUV_velocidad_angular(self, tiempo) ==
  IF MCUV_Resolve("velocidad_angular") = 261
  THEN MCUV_velocidad_angular_L261(self, tiempo)
  ELSE MCUV_velocidad_angular_L49(self, tiempo)

MCUV_aceleracion_angular(self, tiempo) == Float(self.aceleracion_angular_inicial)

MCUV_velocidad_tangencial(self, tiempo) ==
  Luego(MCUV_velocidad_angular(self, tiempo), LAMBDA w : Float(Mul(w, self.radio)))

MCUV_aceleracion_tangencial(self, tiempo) ==
  Float(Mul(self.aceleracion_angular_inicial, self.radio))

MCUV_aceleracion_centripeta(self, tiempo) ==
  Luego(MCUV_velocidad_angular(self, tiempo),
        LAMBDA w : Float(Mul(Mul(w, w), self.radio)))

MCUV_aceleracion_total(self, tiempo) ==
  Luego(MCUV_aceleracion_tangencial(self, <<>>), LAMBDA at :
    Luego(MCUV_aceleracion_centripeta(self, tiempo), LAMBDA an :
      Float(Sqrt(Add(Mul(at, at), Mul(an, an))))))

MCUV_posicion_L128(self, tiempo) ==
  Luego(MCUV_posicion_angular(self, tiempo),
        LAMBDA theta : Vector(<<Escalar(self.radio, Cos(theta)),
                                Escalar(self.radio, Sin(theta))>>))

MCUV_posicion_L196(self, tiempo) ==
  IF Lt(tiempo, Zero)
  THEN Raise(InvalidArgument)
  ELSE Luego(MCUV_posicion_angular(self, tiempo),
             LAMBDA theta : Vector(<<Escalar(self.radio, Cos(theta)),
                                     Escalar(self.radio, Sin(theta))>>))

MCUV_posicion(self, tiempo) ==
  IF MCUV_Resolve("posicion") = 196
  THEN MCUV_posicion_L196(self, tiempo)
  ELSE MCUV_posicion_L128(self, tiempo)

MCUV_velocidad_L143(self, tiempo) ==
  Luego(MCUV_posicion_angular(self, tiempo), LAMBDA theta :
    Luego(MCUV_velocidad_tangencial(self, tiempo), LAMBDA v :
      Vector(<<Escalar(Neg(v), Sin(theta)), Escalar(v, Cos(theta))>>)))

MCUV_velocidad_L213(self, tiempo) ==
  IF Lt(tiempo, Zero)
  THEN Raise(InvalidArgument)
  ELSE LET omega == MCUV_ecuacion_omega(self, tiempo)
       IN  Luego(MCUV_posicion_angular(self, tiempo),
                 LAMBDA theta :
                   Vector(<<Escalar(Mul(Neg(omega), self.radio), Sin(theta)),
                            Escalar(Mul(omega, self.radio), Cos(theta))>>))

MCUV_velocidad(self, tiempo) ==
  IF MCUV_Resolve("velocidad") = 213
  THEN MCUV_velocidad_L213(self, tiempo)
  ELSE MCUV_velocidad_L143(self, tiempo)

MCUV_aceleracion_L159(self, tiempo) ==
  Luego(MCUV_posicion_angular(self, tiempo), LAMBDA theta :
    Luego(MCUV_aceleracion_tangencial(self, <<>>), LAMBDA at :
      Luego(MCUV_aceleracion_centripeta(self, tiempo), LAMBDA an :
        Vector(<<SumaTrig(Escalar(Neg(an), Cos(theta)), Escalar(Neg(at), Sin(theta))),
                 SumaTrig(Escalar(Neg(an), Sin(theta)), Escalar(at, Cos(theta)))>>))))

MCUV_aceleracion_L231(self, tiempo) ==
  IF Lt(tiempo, Zero)
  THEN Raise(InvalidArgument)
  ELSE LET omega == MCUV_ecuacion_omega(self, tiempo)
           alpha == self.aceleracion_angular_inicial
       IN  Luego(MCUV_posicion_angular(self, tiempo),
                 LAMBDA theta :
                   LET at_x == Escalar(Mul(Neg(alpha), self.radio), Sin(theta))
                       at_y == Escalar(Mul(alpha, self.radio), Cos(theta))
                       ac_x == Escalar(Mul(Neg(Mul(omega, omega)), self.radio), Cos(theta))
                       ac_y == Escalar(Mul(Neg(Mul(omega, omega)), self.radio), Sin(theta))
                   IN  Vector(<<SumaTrig(at_x, ac_x), SumaTrig(at_y, ac_y)>>))

MCUV_aceleracion(self, tiempo) ==
  IF MCUV_Resolve("aceleracion") = 231
  THEN MCUV_aceleracion_L231(self, tiempo)
  ELSE MCUV_aceleracion_L159(self, tiempo)

MCUV_aceleracion_angular_constante(self) == Float(self.aceleracion_angular_inicial)

(***************************************************************************)
(* Calls on the circular motions.                                          *)
(***************************************************************************)
\* a time argument that may be omitted (tiempo: float = None)
TiempoOpcional == {<<>>} \cup {<<t>> : t \in TiemposConsulta}

MCU_Construir ==
  \E radio \in Radios, th0 \in Angulos, w0 \in Omegas :
    Construir(<<radio, th0, w0>>, MCU_init(radio, th0, w0))

MCU_CallPosicionAngular ==
  /\ objeto.clase = "MCU"
  /\ \E t \in TiemposConsulta :
       Consulta("posicion_angular", <<t>>, MCU_posicion_angular(objeto, t))

MCU_CallPosicion ==
  /\ objeto.clase = "MCU"
  /\ \E t \in TiemposConsulta : Consulta("posicion", <<t>>, MCU_posicion(objeto, t))

MCU_CallVelocidad ==
  /\ objeto.clase = "MCU"
  /\ \E t \in TiemposConsulta : Consulta("velocidad", <<t>>, MCU_velocidad(objeto, t))

MCU_CallAceleracion ==
  /\ objeto.clase = "MCU"
  /\ \E t \in TiemposConsulta : Consulta("aceleracion", <<t>>, MCU_aceleracion(objeto, t))

MCU_CallPeriodo ==
  /\ objeto.clase = "MCU"
  /\ Consulta("periodo", <<>>, MCU_periodo(objeto))

MCU_CallFrecuencia ==
  /\ objeto.clase = "MCU"
  /\ Consulta("frecuencia", <<>>, MCU_frecuencia(objeto))

MCUV_Construir ==
  \E radio \in Radios, th0 \in Angulos, w0 \in Omegas, alpha \in Omegas :
    Construir(<<radio, th0, w0, alpha>>, MCUV_init(radio, th0, w0, alpha))

MCUV_CallPosicionAngular ==
  /\ objeto.clase = "MCUV"
  /\ \E t \in TiemposConsulta :
       Consulta("posicion_angular", <<t>>, MCUV_posicion_angular(objeto, t))

MCUV_CallVelocidadAngular ==
  /\ objeto.clase = "MCUV"
  /\ \E t \in TiemposConsulta :
       Consulta("velocidad_angular", <<t>>, MCUV_velocidad_angular(objeto, t))

MCUV_CallAceleracionAngular ==
  /\ objeto.clase = "MCUV"
  /\ \E arg \in TiempoOpcional :
       Consulta("aceleracion_angular", arg, MCUV_aceleracion_angular(objeto, arg))

MCUV_CallVelocidadTangencial ==
  /\ objeto.clase = "MCUV"
  /\ \E t \in TiemposConsulta :
       Consulta("velocidad_tangencial", <<t>>, MCUV_velocidad_tangencial(objeto, t))

MCUV_CallAceleracionTangencial ==
  /\ objeto.clase = "MCUV"
  /\ \E arg \in TiempoOpcional :
       Consulta("aceleracion_tangencial", arg, MCUV_aceleracion_tangencial(objeto, arg))

MCUV_CallAceleracionCentripeta ==
  /\ objeto.clase = "MCUV"
  /\ \E t \in TiemposConsulta :
       Consulta("aceleracion_centripeta", <<t>>, MCUV_aceleracion_centripeta(objeto, t))

MCUV_CallAceleracionTotal ==
  /\ objeto.clase = "MCUV"
  /\ \E t \in TiemposConsulta :
       Consulta("aceleracion_total", <<t>>, MCUV_aceleracion_total(objeto, t))

MCUV_CallPosicion ==
  /\ objeto.clase = "MCUV"
  /\ \E t \in TiemposConsulta : Consulta("posicion", <<t>>, MCUV_posicion(objeto, t))

MCUV_CallVelocidad ==
  /\ objeto.clase = "MCUV"
  /\ \E t \in TiemposConsulta : Consulta("velocidad", <<t>>, MCUV_velocidad(objeto, t))

MCUV_CallAceleracion ==
  /\ objeto.clase = "MCUV"
  /\ \E t \in TiemposConsulta : Consulta("aceleracion", <<t>>, MCUV_aceleracion(objeto, t))

MCUV_CallAceleracionAngularConstante ==
  /\ objeto.clase = "MCUV"
  /\ Consulta("aceleracion_angular_constante", <<>>,
              MCUV_aceleracion_angular_constante(objeto))

NextCircular ==
  \/ MCU_Construir
  \/ MCU_CallPosicionAngular
  \/ MCU_CallPosicion
  \/ MCU_CallVelocidad
  \/ MCU_CallAceleracion
  \/ MCU_CallPeriodo
  \/ MCU_CallFrecuencia
  \/ MCUV_Construir
  \/ MCUV_CallPosicionAngular
  \/ MCUV_CallVelocidadAngular
  \/ MCUV_CallAceleracionAngular
  \/ MCUV_CallVelocidadTangencial
  \/ MCUV_CallAceleracionTangencial
  \/ MCUV_CallAceleracionCentripeta
  \/ MCUV_CallAceleracionTotal
  \/ MCUV_CallPosicion
  \/ MCUV_CallVelocidad
  \/ MCUV_CallAceleracion
  \/ MCUV_CallAceleracionAngularConstante

SpecCircular == InitObjeto /\ [][NextCircular]_vars

Circulares == {"MCU", "MCUV"}

\* C12: on both circular motions posicion_angular, posicion, velocidad and
\* aceleracion raise ValueError 'El tiempo no puede ser negativo' for every
\* t < 0, and none of them raises for t >= 0.
C12_TiempoNegativoCircular ==
  (/\ objeto.clase \in Circulares
   /\ metodo \in {"posicion_angular", "posicion", "velocidad", "aceleracion"})
    => IF Lt(argumento[1], Zero)
       THEN resultado = Raise(InvalidArgument)
       ELSE resultado.tipo # "raise"

C12_Witness ==
  /\ objeto.clase = "MCUV"
  /\ metodo = "aceleracion"
  /\ Lt(argumento[1], Zero)
  /\ resultado = Raise(InvalidArgument)

\* C13: constructing a circular motion with radius <= 0 raises ValueError
\* 'El radio debe ser un valor positivo' and binds no instance; a positive
\* radius is accepted; so every circular motion that exists has radius > 0.
C13_RadioPositivo ==
  /\ objeto.clase \in Circulares => Lt(Zero, objeto.radio)
  /\ metodo = "__init__"
       => IF Geq(Zero, argumento[1])
          THEN resultado = Raise(RadioInvalido) /\ objeto = Ninguno
          ELSE /\ resultado = Instancia(objeto)
               /\ objeto.clase \in Circulares
               /\ objeto.radio = argumento[1]

C13_Witness ==
  /\ metodo = "__init__"
  /\ Len(argumento) = 3
  /\ argumento[1] = Zero
  /\ resultado = Raise(RadioInvalido)
  /\ objeto = Ninguno

\* the angular position theta(t) of the live circular motion
C_theta(t) ==
  IF objeto.clase = "MCU"
  THEN MCU_posicion_angular(objeto, t).valor[1]
  ELSE MCUV_posicion_angular(objeto, t).valor[1]

\* x^2 + y^2 of a vector of two terms of one angle, reduced with
\* cos^2 + sin^2 = 1 to  k + k2*cos^2 + kcs*cos*sin
C_NormaCuadrada(v) ==
  LET x == v[1]
      y == v[2]
      cc == Add(Mul(x.c, x.c), Mul(y.c, y.c))
      ss == Add(Mul(x.s, x.s), Mul(y.s, y.s))
      cs == Add(Mul(x.c, x.s), Mul(y.c, y.s))
  IN  [k |-> ss, k2 |-> Sub(cc, ss), kcs |-> Mul(Rat(2, 1), cs)]

\* C19: for both circular motions and every t >= 0, posicion(t) is
\* (R*cos(theta(t)), R*sin(theta(t))) for the motion's own radius R and
\* angular position theta(t), so its squared norm is R^2.
C19_CircleInvariant ==
  (/\ objeto.clase \in Circulares
   /\ metodo = "posicion"
   /\ Geq(argumento[1], Zero))
    => /\ resultado = Vector(<<Escalar(objeto.radio, Cos(C_theta(argumento[1]))),
                               Escalar(objeto.radio, Sin(C_theta(argumento[1])))>>)
       /\ C_NormaCuadrada(resultado.valor)
            = [k |-> Mul(objeto.radio, objeto.radio), k2 |-> Zero, kcs |-> Zero]

C19_Witness ==
  /\ objeto.clase = "MCUV"
  /\ objeto.radio = Rat(2, 1)
  /\ objeto.aceleracion_angular_inicial # Zero
  /\ metodo = "posicion"
  /\ Lt(Zero, argumento[1])
  /\ resultado.tipo = "ndarray"
  /\ C_NormaCuadrada(resultado.valor) = [k |-> Rat(4, 1), k2 |-> Zero, kcs |-> Zero]

\* C20: on a uniform circular motion with angular velocity 0, periodo()
\* returns +infinity and frecuencia() returns 0, neither raises a division by
\* zero, and the constructor accepts an angular velocity of 0.
C20_OmegaCero ==
  /\ (objeto.clase = "MCU" /\ objeto.velocidad_angular_inicial = Zero)
       => /\ metodo = "periodo" => resultado = Float(Inf)
          /\ metodo = "frecuencia" => resultado = Float(Zero)
  /\ (metodo = "__init__" /\ Len(argumento) = 3
        /\ Lt(Zero, argumento[1]) /\ argumento[3] = Zero)
       => /\ resultado.tipo = "objeto"
          /\ objeto.clase = "MCU"
          /\ objeto.velocidad_angular_inicial = Zero

C20_Witness ==
  /\ objeto.clase = "MCU"
  /\ objeto.velocidad_angular_inicial = Zero
  /\ metodo = "periodo"
  /\ resultado = Float(Inf)

(***************************************************************************)
(* References.  A numpy array, a list or a dict is a cell of mem; objects, *)
(* callers and results hold the address (index) of a cell.                 *)
(***************************************************************************)
\* the caller's scenarios are numbered 0..MaxVec
MaxVec == 1
\* vector-valued motions are queried at the times -1..MaxTVec
MaxTVec == 1
\* a caller writes into an array, list or dict at most MaxEscrituras times
MaxEscrituras == 1

\* a returned reference to the cell at address d
Ref(d) == [tipo |-> "ref", valor |-> <<d>>, error |-> ""]

\* what a call leaves behind: its outcome and the memory after it
Llamada(r, m) == [resultado |-> r, mem |-> m]

\* a new cell at address d (the cell of a dropped earlier result is reused)
Alojar(m, d, celda) == IF Len(m) >= d THEN [m EXCEPT ![d] = celda] ELSE Append(m, celda)

\* the value a caller writes in place
Escrito == Rat(7, 1)

\* a method call on the live object, which may allocate or write cells
LlamadaObjeto(nombre, arg, c) ==
  /\ metodo' = nombre
  /\ argumento' = arg
  /\ origen' = SinOrigen
  /\ resultado' = c.resultado
  /\ mem' = c.mem
  /\ UNCHANGED <<mruv, objeto, traza, logging>>

(***************************************************************************)
(* MovimientoEspacial.                                                     *)
(***************************************************************************)
\* ValueError("Todos los vectores (posicion, velocidad, aceleracion) deben ser de 3 dimensiones.")
NoTresDimensiones == "Todos los vectores"

Vec(x, y, z) == <<Rat(x, 1), Rat(y, 1), Rat(z, 1)>>

TiemposVector == {Rat(k, 1) : k \in -1 .. MaxTVec}

\* the arrays a caller passes: initial position, velocity and acceleration
ESP_Escenarios ==
  {<<Vec(k, k + 1, -k), Vec(k + 1, -1, k + 2), Vec(-k, k + 1, -2)>> : k \in 0 .. MaxVec}

\* the same with one array that is not three-dimensional
ESP_EscenariosInvalidos ==
  {<<<<Zero, Zero>>, Vec(1, -1, 2), Vec(0, 1, -2)>>,
   <<Vec(0, 1, 0), <<Zero, Zero>>, Vec(0, 1, -2)>>,
   <<Vec(0, 1, 0), Vec(1, -1, 2), <<Zero, Zero>>>>}

\* elementwise u + v and u * k of numpy arrays
VecSuma(u, v) == [i \in DOMAIN u |-> Add(u[i], v[i])]

VecPor(u, k) == [i \in DOMAIN u |-> Mul(u[i], k)]

\* the arguments are the addresses of the caller's arrays; np.array copies them
ESP_init(m, posicion_inicial, velocidad_inicial, aceleracion_constante) ==
  IF ~(/\ Len(m[posicion_inicial]) = 3
       /\ Len(m[velocidad_inicial]) = 3
       /\ Len(m[aceleracion_constante]) = 3)
  THEN Llamada(Raise(NoTresDimensiones), m)
  ELSE LET m1 == Append(m, m[posicion_inicial])
           m2 == Append(m1, m[velocidad_inicial])
           m3 == Append(m2, m[aceleracion_constante])
       IN  Llamada(Instancia([clase |-> "Espacial",
                              posicion_inicial |-> Len(m1),
                              velocidad_inicial |-> Len(m2),
                              aceleracion_constante |-> Len(m3)]),
                   m3)

\* the address of the array a call returns as a new object
ESP_nuevo(self) == self.aceleracion_constante + 1

\* r0 + v0*t + 0.5*a*t**2
ESP_ecuacion_posicion(m, self, tiempo) ==
  VecSuma(VecSuma(m[self.posicion_inicial], VecPor(m[self.velocidad_inicial], tiempo)),
          VecPor(VecPor(m[self.aceleracion_constante], Rat(1, 2)), Mul(tiempo, tiempo)))

\* v0 + a*t
ESP_ecuacion_velocidad(m, self, tiempo) ==
  VecSuma(m[self.velocidad_inicial], VecPor(m[self.aceleracion_constante], tiempo))

ESP_posicion(m, self, tiempo) ==
  IF Lt(tiempo, Zero)
  THEN Llamada(Raise(InvalidArgument), m)
  ELSE Llamada(Ref(ESP_nuevo(self)),
               Alojar(m, ESP_nuevo(self), ESP_ecuacion_posicion(m, self, tiempo)))

\* a bug: each axis would take the acceleration of the next axis
ESP_velocidad_cruzada(m, self, tiempo) ==
  IF Lt(tiempo, Zero)
  THEN Llamada(Raise(InvalidArgument), m)
  ELSE LET a == m[self.aceleracion_constante]
       IN  Llamada(Ref(ESP_nuevo(self)),
                   Alojar(m, ESP_nuevo(self),
                          VecSuma(m[self.velocidad_inicial],
                                  VecPor(<<a[2], a[3], a[1]>>, tiempo))))

ESP_velocidad(m, self, tiempo) ==
  IF Lt(tiempo, Zero)
  THEN Llamada(Raise(InvalidArgument), m)
  ELSE Llamada(Ref(ESP_nuevo(self)),
               Alojar(m, ESP_nuevo(self), ESP_ecuacion_velocidad(m, self, tiempo)))

\* returns the stored array itself, not a copy
ESP_aceleracion(m, self, tiempo) == Llamada(Ref(self.aceleracion_constante), m)

\* how many components of the cells hold a value written by a caller
Escrituras(m) ==
  Cardinality({di \in UNION {{<<d, i>> : i \in DOMAIN m[d]} : d \in DOMAIN m} :
                 m[di[1]][di[2]] = Escrito})

\* the caller creates three arrays and passes them to the constructor; the
\* arrays of a call that raised are dropped
ESP_Construir ==
  /\ objeto = Ninguno
  /\ \E e \in ESP_Escenarios \cup ESP_EscenariosInvalidos :
       LET c == ESP_init(e, 1, 2, 3)
       IN  /\ objeto' = IF c.resultado.tipo = "objeto" THEN c.resultado.valor[1] ELSE objeto
           /\ mem' = IF c.resultado.tipo = "objeto" THEN c.mem ELSE mem
           /\ metodo' = "__init__"
           /\ argumento' = e
           /\ origen' = SinOrigen
           /\ resultado' = c.resultado
           /\ UNCHANGED <<mruv, traza, logging>>

ESP_CallPosicion ==
  /\ objeto.clase = "Espacial"
  /\ \E t \in TiemposVector :
       LlamadaObjeto("posicion", <<t>>, ESP_posicion(mem, objeto, t))

ESP_CallVelocidad ==
  /\ objeto.clase = "Espacial"
  /\ \E t \in TiemposVector :
       LlamadaObjeto("velocidad", <<t>>, ESP_velocidad(mem, objeto, t))

ESP_CallAceleracion ==
  /\ objeto.clase = "Espacial"
  /\ \E arg \in {<<>>} \cup {<<t>> : t \in TiemposVector} :
       LlamadaObjeto("aceleracion", arg, ESP_aceleracion(mem, objeto, arg))

\* the caller assigns to a component of the vector the last call returned
ESP_ModificarResultado ==
  /\ objeto.clase = "Espacial"
  /\ resultado.tipo = "ref"
  /\ Escrituras(mem) < MaxEscrituras
  /\ \E i \in 1 .. 3 :
       /\ mem' = [mem EXCEPT ![resultado.valor[1]][i] = Escrito]
       /\ metodo' = "modificar_resultado"
       /\ argumento' = <<Rat(i, 1)>>
       /\ origen' = SinOrigen
       /\ UNCHANGED <<mruv, objeto, resultado, traza, logging>>

\* the caller assigns to a component of an array it passed to the constructor
ESP_ModificarArgumento ==
  /\ objeto.clase = "Espacial"
  /\ Escrituras(mem) < MaxEscrituras
  /\ \E d \in 1 .. 3, i \in 1 .. 3 :
       /\ mem' = [mem EXCEPT ![d][i] = Escrito]
       /\ metodo' = "modificar_argumento"
       /\ argumento' = <<Rat(d, 1), Rat(i, 1)>>
       /\ origen' = SinOrigen
       /\ UNCHANGED <<mruv, objeto, resultado, traza, logging>>

NextEspacial ==
  \/ ESP_Construir
  \/ ESP_CallPosicion
  \/ ESP_CallVelocidad
  \/ ESP_CallAceleracion
  \/ ESP_ModificarResultado
  \/ ESP_ModificarArgumento

SpecEspacial == InitObjeto /\ [][NextEspacial]_vars

\* the addresses of the vectors the live Spatial motion stores
C_Almacenados ==
  {objeto.posicion_inicial, objeto.velocidad_inicial, objeto.aceleracion_constante}

\* C15: the vector returned by posicion(t), velocidad(t) or aceleracion(t) of
\* a Spatial motion is never the motion's own stored vector (so that writing
\* into a returned vector cannot change the initial conditions or a later
\* result).
C15_ResultadoFresco ==
  (/\ objeto.clase = "Espacial"
   /\ metodo \in {"posicion", "velocidad", "aceleracion"}
   /\ resultado.tipo = "ref")
    => resultado.valor[1] \notin C_Almacenados

\* the motion built from the stored vectors with every axis but i set to zero
C_Aislado(i) ==
  LET solo(v) == [j \in 1 .. 3 |-> IF j = i THEN v[j] ELSE Zero]
  IN  ESP_init(<<solo(mem[objeto.posicion_inicial]),
                 solo(mem[objeto.velocidad_inicial]),
                 solo(mem[objeto.aceleracion_constante])>>, 1, 2, 3)

\* component i of what a call returned
C_Componente(c, i) == c.mem[c.resultado.valor[1]][i]

\* C18: for every t >= 0 and every axis i, component i of posicion(t) and of
\* velocidad(t) of a Spatial motion is exactly component i returned by the
\* motion built with the other two components of all three vectors zeroed.
C18_Superposicion ==
  (/\ objeto.clase = "Espacial"
   /\ metodo \in {"posicion", "velocidad"}
   /\ Geq(argumento[1], Zero))
    => /\ resultado.tipo = "ref"
       /\ \A i \in 1 .. 3 :
            LET c0 == C_Aislado(i)
                c1 == IF metodo = "posicion"
                      THEN ESP_posicion(c0.mem, c0.resultado.valor[1], argumento[1])
                      ELSE ESP_velocidad(c0.mem, c0.resultado.valor[1], argumento[1])
            IN  mem[resultado.valor[1]][i] = C_Componente(c1, i)

C18_Witness ==
  /\ objeto.clase = "Espacial"
  /\ metodo = "velocidad"
  /\ argumento = <<Rat(1, 1)>>
  /\ resultado.tipo = "ref"
  /\ mem[objeto.velocidad_inicial] = Vec(2, -1, 3)
  /\ mem[objeto.aceleracion_constante] = Vec(-1, 2, -2)
  /\ mem[resultado.valor[1]] = Vec(1, 1, 1)

(***************************************************************************)
(* MovimientoArmonicoComplejo (MAC).  The constructor argument is the      *)
(* address of the caller's list; a list holds the addresses of its dicts.  *)
(***************************************************************************)
\* ValueError("mas_components debe ser una lista no vacia de diccionarios.")
MAC_ListaInvalida == "mas_components debe ser una lista"
\* ValueError("Cada componente MAS debe tener 'amplitud', 'frecuencia_angular' y 'fase_inicial'.")
MAC_ClavesFaltantes == "Cada componente MAS debe tener"
\* ValueError("Los valores de amplitud, frecuencia_angular y fase_inicial deben ser numericos.")
MAC_NoNumerico == "deben ser numericos"

MAC_Claves == {"amplitud", "frecuencia_angular", "fase_inicial"}

ListCell(items) == [tipo |-> "list", items |-> items]

DictCell(items) == [tipo |-> "dict", items |-> items]

Componente(A, omega, phi) ==
  DictCell([amplitud |-> Rat(A, 1), frecuencia_angular |-> Rat(omega, 1),
            fase_inicial |-> Rat(phi, 1)])

\* a value that is neither an int nor a float
Texto == [texto |-> "1.0"]

\* isinstance(v, (int, float))
EsNumero(v) == "p" \in DOMAIN v

\* the memory a caller has built before the constructor call; the argument is
\* the last cell
MAC_Escenarios ==
  {<<Componente(k + 1, k + 1, 0), Componente(2, k, 1), ListCell(<<1, 2>>)>> :
     k \in 0 .. MaxVec}

MAC_EscenariosInvalidos ==
  {<<ListCell(<<>>)>>,
   <<Componente(1, 1, 0)>>,
   <<Componente(1, 1, 0), [tipo |-> "tuple", items |-> <<1>>]>>,
   <<Componente(1, 1, 0),
     DictCell([amplitud |-> Rat(1, 1), frecuencia_angular |-> Rat(1, 1),
               fase_inicial |-> Texto]),
     ListCell(<<1, 2>>)>>,
   <<DictCell([fase_inicial |-> Texto]), ListCell(<<1>>)>>,
   <<Componente(1, 1, 0),
     DictCell([amplitud |-> Rat(1, 1), frecuencia_angular |-> Rat(1, 1)]),
     ListCell(<<1, 2>>)>>,
   <<DictCell([amplitud |-> Texto, frecuencia_angular |-> Rat(1, 1),
               fase_inicial |-> Zero]),
     ListCell(<<1>>)>>}

\* a bug: the values of a component would not be checked to be numbers
MAC_init_sin_tipos(m, mas_components) ==
  LET lista == m[mas_components]
      comp(i) == m[lista.items[i]].items
  IN  IF lista.tipo # "list" \/ lista.items = <<>>
      THEN Llamada(Raise(MAC_ListaInvalida), m)
      ELSE IF \E i \in DOMAIN lista.items : ~(MAC_Claves \subseteq DOMAIN comp(i))
           THEN Llamada(Raise(MAC_ClavesFaltantes), m)
           ELSE Llamada(Instancia([clase |-> "MAC",
                                   mas_components |-> mas_components]), m)

\* the list object itself is stored, not a copy of it
MAC_init(m, mas_components) ==
  LET lista == m[mas_components]
      comp(i) == m[lista.items[i]].items
      sinClaves(i) == ~(MAC_Claves \subseteq DOMAIN comp(i))
      noNumerico(i) == \E k \in MAC_Claves : ~EsNumero(comp(i)[k])
  IN  IF lista.tipo # "list" \/ lista.items = <<>>
      THEN Llamada(Raise(MAC_ListaInvalida), m)
      ELSE LET malos == {i \in DOMAIN lista.items : sinClaves(i) \/ noNumerico(i)}
           IN  IF malos = {}
               THEN Llamada(Instancia([clase |-> "MAC",
                                       mas_components |-> mas_components]), m)
               ELSE LET i0 == CHOOSE i \in malos : \A j \in malos : i <= j
                    IN  IF sinClaves(i0)
                        THEN Llamada(Raise(MAC_ClavesFaltantes), m)
                        ELSE Llamada(Raise(MAC_NoNumerico), m)

\* a float accumulated as a sum of trigonometric terms, in order
Suma(terminos) == [tipo |-> "suma", valor |-> terminos, error |-> ""]

\* the dicts of self.mas_components, in order
MAC_componentes(m, self) ==
  [i \in DOMAIN m[self.mas_components].items |-> m[m[self.mas_components].items[i]].items]

\* omega * tiempo + phi
MAC_fase(comp, tiempo) == Add(Mul(comp.frecuencia_angular, tiempo), comp.fase_inicial)

\* a bug: the list would be emptied while it is summed
MAC_posicion_consume(m, self, tiempo) ==
  LET cs == MAC_componentes(m, self)
  IN  Llamada(Suma([i \in DOMAIN cs |->
                      Escalar(cs[i].amplitud, Cos(MAC_fase(cs[i], tiempo)))]),
              [m EXCEPT ![self.mas_components].items = <<>>])

MAC_posicion(m, self, tiempo) ==
  LET cs == MAC_componentes(m, self)
  IN  Llamada(Suma([i \in DOMAIN cs |->
                      Escalar(cs[i].amplitud, Cos(MAC_fase(cs[i], tiempo)))]), m)

MAC_velocidad(m, self, tiempo) ==
  LET cs == MAC_componentes(m, self)
  IN  Llamada(Suma([i \in DOMAIN cs |->
                      Escalar(Mul(Neg(cs[i].amplitud), cs[i].frecuencia_angular),
                              Sin(MAC_fase(cs[i], tiempo)))]), m)

MAC_aceleracion(m, self, tiempo) ==
  LET cs == MAC_componentes(m, self)
  IN  Llamada(Suma([i \in DOMAIN cs |->
                      Escalar(Mul(Neg(cs[i].amplitud),
                                  Mul(cs[i].frecuencia_angular, cs[i].frecuencia_angular)),
                              Cos(MAC_fase(cs[i], tiempo)))]), m)

\* how many writes a caller has made: dict values stored and list items removed
MAC_Escrituras(m) ==
  LET dicts == {d \in DOMAIN m : m[d].tipo = "dict"}
      lista == CHOOSE d \in DOMAIN m : m[d].tipo = "list"
  IN  Cardinality({dk \in dicts \X MAC_Claves : m[dk[1]].items[dk[2]] = Escrito})
        + (Cardinality(dicts) - Len(m[lista].items))

\* the caller builds a list of dicts and passes it to the constructor; the
\* cells of a call that raised are dropped.  The argument is recorded as the
\* address passed and the caller's memory at the time of the call.
MAC_Construir ==
  /\ objeto = Ninguno
  /\ \E e \in MAC_Escenarios \cup MAC_EscenariosInvalidos :
       LET c == MAC_init(e, Len(e))
       IN  /\ objeto' = IF c.resultado.tipo = "objeto" THEN c.resultado.valor[1] ELSE objeto
           /\ mem' = IF c.resultado.tipo = "objeto" THEN c.mem ELSE mem
           /\ metodo' = "__init__"
           /\ argumento' = <<Rat(Len(e), 1), e>>
           /\ origen' = SinOrigen
           /\ resultado' = c.resultado
           /\ UNCHANGED <<mruv, traza, logging>>

MAC_CallPosicion ==
  /\ objeto.clase = "MAC"
  /\ \E t \in TiemposVector :
       LlamadaObjeto("posicion", <<t>>, MAC_posicion(mem, objeto, t))

MAC_CallVelocidad ==
  /\ objeto.clase = "MAC"
  /\ \E t \in TiemposVector :
       LlamadaObjeto("velocidad", <<t>>, MAC_velocidad(mem, objeto, t))

MAC_CallAceleracion ==
  /\ objeto.clase = "MAC"
  /\ \E t \in TiemposVector :
       LlamadaObjeto("aceleracion", <<t>>, MAC_aceleracion(mem, objeto, t))

\* the caller assigns to a key of a dict of the list it passed
MAC_ModificarDict ==
  /\ objeto.clase = "MAC"
  /\ MAC_Escrituras(mem) < MaxEscrituras
  /\ \E d \in {d \in DOMAIN mem : mem[d].tipo = "dict"}, k \in MAC_Claves :
       /\ mem' = [mem EXCEPT ![d].items[k] = Escrito]
       /\ metodo' = "modificar_argumento"
       /\ argumento' = <<Rat(d, 1)>>
       /\ origen' = SinOrigen
       /\ UNCHANGED <<mruv, objeto, resultado, traza, logging>>

\* the caller removes the last item of the list it passed (list.pop())
MAC_ModificarLista ==
  /\ objeto.clase = "MAC"
  /\ MAC_Escrituras(mem) < MaxEscrituras
  /\ LET l == Len(mem)
         n == Len(mem[l].items)
     IN  /\ mem' = [mem EXCEPT ![l].items = SubSeq(mem[l].items, 1, n - 1)]
         /\ metodo' = "modificar_argumento"
         /\ argumento' = <<Rat(l, 1)>>
         /\ origen' = SinOrigen
         /\ UNCHANGED <<mruv, objeto, resultado, traza, logging>>

NextMAC ==
  \/ MAC_Construir
  \/ MAC_CallPosicion
  \/ MAC_CallVelocidad
  \/ MAC_CallAceleracion
  \/ MAC_ModificarDict
  \/ MAC_ModificarLista

SpecMAC == InitObjeto /\ [][NextMAC]_vars

\* what posicion, velocidad and aceleracion of the live object return at time t
\* in memory m, as values
C_Respuestas(m, t) ==
  IF objeto.clase = "MAC"
  THEN <<MAC_posicion(m, objeto, t).resultado,
         MAC_velocidad(m, objeto, t).resultado,
         MAC_aceleracion(m, objeto, t).resultado>>
  ELSE <<ESP_ecuacion_posicion(m, objeto, t),
         ESP_ecuacion_velocidad(m, objeto, t),
         m[objeto.aceleracion_constante]>>

\* C16: after a Harmonic-Composite or Spatial motion has been constructed,
\* modifying the list, dicts or vectors that were passed to its constructor
\* does not change what posicion(t), velocidad(t) or aceleracion(t) return.
C16_CondicionesFijas ==
  [][(objeto.clase \in {"MAC", "Espacial"} /\ metodo' = "modificar_argumento")
       => \A t \in {Zero, Rat(1, 1)} : C_Respuestas(mem', t) = C_Respuestas(mem, t)]_vars

(***************************************************************************)
(* Every class whose object lives in objeto.                               *)
(***************************************************************************)
NextObjeto ==
  \/ NextMRU
  \/ NextCircular
  \/ NextEspacial
  \/ NextMAC

SpecObjeto == InitObjeto /\ [][NextObjeto]_vars

\* the last step was a query on the live object
C_EsConsulta == metodo \notin {"", "__init__", "modificar_argumento", "modificar_resultado"}

\* the initial conditions the live object stores, as values
C_Condiciones ==
  IF objeto.clase = "MAC" THEN <<MAC_componentes(mem, objeto)>>
  ELSE IF objeto.clase = "Espacial"
       THEN <<mem[objeto.posicion_inicial], mem[objeto.velocidad_inicial],
              mem[objeto.aceleracion_constante]>>
       ELSE <<objeto>>

MaxMag == 1

DimensionMismatch == "DimensionMismatch"

Cantidad(x, d) == [magnitud |-> x, dim |-> d]

\* dimensionless (a raw number), length, time, velocity, acceleration
Dimensiones == {<<0, 0>>, <<1, 0>>, <<0, 1>>, <<1, -1>>, <<1, -2>>}

Cantidades == {Cantidad(Rat(k, 1), d) : k \in -MaxMag .. MaxMag, d \in Dimensiones}

Quantity(c) == [tipo |-> "quantity", valor |-> <<c>>, error |-> ""]

Bool(b) == [tipo |-> "bool", valor |-> <<b>>, error |-> ""]

\* a bug: magnitudes would be added whatever their dimensions
Q_add_sin_dimension(a, b) == Quantity(Cantidad(Add(a.magnitud, b.magnitud), a.dim))

Q_add(a, b) ==
  IF a.dim # b.dim
  THEN Raise(DimensionMismatch)
  ELSE Quantity(Cantidad(Add(a.magnitud, b.magnitud), a.dim))

Q_lt(a, b) ==
  IF a.dim # b.dim
  THEN Raise(DimensionMismatch)
  ELSE Bool(Lt(a.magnitud, b.magnitud))

Q_mul(a, b) ==
  Quantity(Cantidad(Mul(a.magnitud, b.magnitud),
                    <<a.dim[1] + b.dim[1], a.dim[2] + b.dim[2]>>))

\* q < 0 with a literal 0: the design promotes a raw time to seconds and does
\* not say how the layer compares a quantity of another dimension with it, so
\* either the dimensions are checked or only the magnitude is looked at
Q_lt_cero(q) ==
  {Bool(Lt(q.magnitud, Zero))}
  \cup (IF q.dim # <<0, 1>> THEN {Raise(DimensionMismatch)} ELSE {})

\* the outcomes of posicion(tiempo) on an MRUV whose fields are quantities
MRUVQ_posicion(self, tiempo) ==
  {IF c.tipo = "raise" THEN c
   ELSE IF c.valor[1] THEN Raise(InvalidArgument)
   ELSE Luego(Q_mul(self.velocidad_inicial, tiempo), LAMBDA vt :
          Luego(Q_add(self.posicion_inicial, vt), LAMBDA x1 :
            Luego(Q_mul(tiempo, tiempo), LAMBDA t2 :
              Luego(Q_mul(Cantidad(Rat(1, 2), <<0, 0>>), self.aceleracion_inicial),
                    LAMBDA ha :
                Luego(Q_mul(ha, t2), LAMBDA hat2 : Q_add(x1, hat2))))))
   : c \in Q_lt_cero(tiempo)}

\* MRUV objects built from quantities (0 m, 5 m/s, 2 m/s^2) and from raw numbers
MRUVQ_Variantes ==
  {[clase |-> "MRUVQ",
    posicion_inicial |-> Cantidad(Zero, <<1, 0>>),
    velocidad_inicial |-> Cantidad(Rat(5, 1), <<1, -1>>),
    aceleracion_inicial |-> Cantidad(Rat(2, 1), <<1, -2>>)],
   [clase |-> "MRUVQ",
    posicion_inicial |-> Cantidad(Zero, <<0, 0>>),
    velocidad_inicial |-> Cantidad(Rat(5, 1), <<0, 0>>),
    aceleracion_inicial |-> Cantidad(Rat(2, 1), <<0, 0>>)]}

Q_Sumar ==
  \E a \in Cantidades, b \in Cantidades : Consulta("add", <<a, b>>, Q_add(a, b))

Q_Comparar ==
  \E a \in Cantidades, b \in Cantidades : Consulta("lt", <<a, b>>, Q_lt(a, b))

Q_Multiplicar ==
  \E a \in Cantidades, b \in Cantidades : Consulta("mul", <<a, b>>, Q_mul(a, b))

MRUVQ_Construir ==
  \E self \in MRUVQ_Variantes :
    Construir(<<self.posicion_inicial, self.velocidad_inicial, self.aceleracion_inicial>>,
              Instancia(self))

MRUVQ_CallPosicion ==
  /\ objeto.clase = "MRUVQ"
  /\ \E t \in Cantidades :
       \E r \in MRUVQ_posicion(objeto, t) : Consulta("posicion", <<t>>, r)

NextDimensiones ==
  \/ Q_Sumar
  \/ Q_Comparar
  \/ Q_Multiplicar
  \/ MRUVQ_Construir
  \/ MRUVQ_CallPosicion

SpecDimensiones == InitObjeto /\ [][NextDimensiones]_vars

C_ErroresMAC == {MAC_ListaInvalida, MAC_ClavesFaltantes, MAC_NoNumerico}

\* the argument at address a of memory m is not a list, or is an empty list
C_NoListaOVacia(m, a) == m[a].tipo # "list" \/ m[a].items = <<>>

\* a component of the list lacks one of the three keys
C_FaltaClave(m, a) ==
  \E i \in DOMAIN m[a].items : \E k \in MAC_Claves : k \notin DOMAIN m[m[a].items[i]].items

\* a component of the list holds a value that is not a number under one of the
\* three keys
C_ValorNoNumerico(m, a) ==
  \E i \in DOMAIN m[a].items :
    \E k \in MAC_Claves \cap DOMAIN m[m[a].items[i]].items :
      ~EsNumero(m[m[a].items[i]].items[k])

C_ArgumentoInvalido(m, a) ==
  \/ C_NoListaOVacia(m, a)
  \/ (~C_NoListaOVacia(m, a) /\ (C_FaltaClave(m, a) \/ C_ValorNoNumerico(m, a)))

C22_AceleracionConstante ==
  /\ metodo = "aceleracion" => resultado = Float(mruv.aceleracion_inicial)
  /\ (metodo \in {"posicion", "velocidad"} /\ Lt(argumento[1], Zero))
       => resultado = Raise(InvalidArgument)

\* aceleracion was called with a negative time and returned a nonzero a
C22_Witness ==
  /\ metodo = "aceleracion"
  /\ argumento # <<>>
  /\ Lt(argumento[1], Zero)
  /\ resultado.tipo = "float"
  /\ resultado.valor[1] = mruv.aceleracion_inicial
  /\ mruv.aceleracion_inicial # Zero

(***************************************************************************)
(* An accelerated and a uniform rectilinear motion side by side.           *)
(***************************************************************************)
\* the accelerated motion exists, with zero or nonzero acceleration; the
\* uniform one is yet to be constructed
InitReduccion ==
  /\ mruv \in {MRUV_init(x0, v0, a) :
                 x0 \in Origenes, v0 \in Coefs, a \in {Zero, Rat(1, 1)}}
  /\ objeto = Ninguno
  /\ mem = <<>>
  /\ metodo = "__init__"
  /\ argumento = <<>>
  /\ origen = SinOrigen
  /\ resultado = None
  /\ traza = SinTraza
  /\ logging = LOG_Importado

\* the uniform motion is constructed from the x0 and v0 of the accelerated one
RED_ConstruirMRU ==
  Construir(<<mruv.posicion_inicial, mruv.velocidad_inicial>>,
            MRU_init(mruv.posicion_inicial, mruv.velocidad_inicial))

NextReduccion ==
  \/ RED_ConstruirMRU
  \/ MRU_CallPosicion
  \/ MRU_CallVelocidad
  \/ MRU_CallAceleracion
  \/ CallPosicion
  \/ CallVelocidad
  \/ CallAceleracion

SpecReduccion == InitReduccion /\ [][NextReduccion]_vars

\* what the accelerated motion answers to the call named nombre at time t
C_RespuestaMRUV(nombre, t) ==
  IF nombre = "posicion" THEN MRUV_posicion(mruv, t)
  ELSE IF nombre = "velocidad" THEN MRUV_velocidad(mruv, t)
  ELSE MRUV_aceleracion(mruv, <<t>>)

\* what the uniform motion answers to the call named nombre at time t
C_RespuestaMRU(nombre, t) ==
  IF nombre = "posicion" THEN MRU_posicion(objeto, t)
  ELSE IF nombre = "velocidad" THEN MRU_velocidad(objeto, t)
  ELSE MRU_aceleracion(objeto, t)

\* the two motions were built from the same x0 and v0, and a = 0
C_Reducido ==
  /\ objeto.clase = "MRU"
  /\ mruv.aceleracion_inicial = Zero
  /\ objeto.posicion_inicial = mruv.posicion_inicial
  /\ objeto.velocidad_inicial = mruv.velocidad_inicial

\* C23: with zero acceleration the accelerated motion reduces to the uniform
\* one: for equal x0 and v0 and every t >= 0, the call just made on either
\* object returned what the other object returns for it, velocidad being v0
\* and aceleracion 0.
C23_ReduccionMRU ==
  (/\ C_Reducido
   /\ metodo \in {"posicion", "velocidad", "aceleracion"}
   /\ argumento # <<>>
   /\ Geq(argumento[1], Zero))
    => /\ resultado = C_RespuestaMRUV(metodo, argumento[1])
       /\ resultado = C_RespuestaMRU(metodo, argumento[1])
       /\ metodo = "velocidad" => resultado = Float(mruv.velocidad_inicial)
       /\ metodo = "aceleracion" => resultado = Float(Zero)

\* both motions start at 1 with velocity 2; posicion(1) returned 3
C23_Witness ==
  /\ C_Reducido
  /\ mruv.posicion_inicial = Rat(1, 1)
  /\ mruv.velocidad_inicial = Rat(2, 1)
  /\ metodo = "posicion"
  /\ argumento = <<Rat(1, 1)>>
  /\ resultado = Float(Rat(3, 1))

(***************************************************************************)
(* Plotting (graficador.py).  pyplot is observed through traza: whether    *)
(* the style was configured, the calls made on the motion object in order, *)
(* the figures created, the curves drawn and the calls of plt.show().      *)
(***************************************************************************)
\* num_points ranges over 1..MaxPuntos
MaxPuntos == 3
\* t_max ranges over -1..MaxTMax
MaxTMax == 2
\* coefficients of the height the stand-in projectile reports range over
\* -MaxAltura..MaxAltura
MaxAltura == 2

\* ValueError("El tiempo maximo debe ser positivo para generar el grafico.")
TiempoMaximoInvalido == "El tiempo maximo debe ser positivo"
\* Python's error for a call that lacks a required positional argument
TypeError == "TypeError"

TiemposMaximos == {Rat(k, 1) : k \in -1 .. MaxTMax}

\* np.linspace(0, t_max, num_points)
Linspace(t_max, num_points) ==
  [i \in 1 .. num_points |->
     IF num_points = 1 THEN Zero ELSE Mul(t_max, Rat(i - 1, num_points - 1))]

\* MovimientoCircularUniforme.velocidad_angular(tiempo=None)
MCU_velocidad_angular(self, tiempo) == Float(self.velocidad_angular_inicial)

\* MovimientoCircularUniforme.aceleracion_centripeta(tiempo=None)
MCU_aceleracion_centripeta(self, tiempo) ==
  Float(Mul(Mul(self.velocidad_angular_inicial, self.velocidad_angular_inicial),
            self.radio))

\* the stand-in for a parabolic motion: posicion(t) returns
\* np.array([t, c0 + c1*t + c2*t**2])
PAR_posicion(self, tiempo) ==
  Vector(<<tiempo, Add(Add(self.c0, Mul(self.c1, tiempo)),
                       Mul(self.c2, Mul(tiempo, tiempo)))>>)

\* obj.nombre(*arg) on an object of class clase in memory m: a parameter
\* without a default that receives no argument is a TypeError
Invocar(clase, m, obj, nombre, arg) ==
  LET sinDefecto ==
        \/ clase \in {"MRU", "Espacial", "Mock"}
        \/ (clase = "MRUV" /\ nombre # "aceleracion")
        \/ (clase = "MCU" /\ nombre = "posicion_angular")
        \/ (clase = "MCUV" /\ nombre # "aceleracion_angular")
  IN  IF arg = <<>> /\ sinDefecto THEN Raise(TypeError)
      ELSE IF clase = "MRU"
      THEN (IF nombre = "posicion" THEN MRU_posicion(obj, arg[1])
            ELSE MRU_velocidad(obj, arg[1]))
      ELSE IF clase = "MRUV"
      THEN (IF nombre = "posicion" THEN MRUV_posicion(obj, arg[1])
            ELSE IF nombre = "velocidad" THEN MRUV_velocidad(obj, arg[1])
            ELSE MRUV_aceleracion(obj, arg))
      ELSE IF clase = "MCU"
      THEN (IF nombre = "posicion_angular" THEN MCU_posicion_angular(obj, arg[1])
            ELSE IF nombre = "velocidad_angular" THEN MCU_velocidad_angular(obj, arg)
            ELSE MCU_aceleracion_centripeta(obj, arg))
      ELSE IF clase = "MCUV"
      THEN (IF nombre = "posicion_angular" THEN MCUV_posicion_angular(obj, arg[1])
            ELSE IF nombre = "velocidad_angular" THEN MCUV_velocidad_angular(obj, arg[1])
            ELSE IF nombre = "aceleracion_angular" THEN MCUV_aceleracion_angular(obj, arg)
            ELSE IF nombre = "aceleracion_centripeta"
            THEN MCUV_aceleracion_centripeta(obj, arg[1])
            ELSE MCUV_aceleracion_total(obj, arg[1]))
      ELSE IF clase = "Espacial"
      THEN LET c == ESP_posicion(m, obj, arg[1])
           IN  IF c.resultado.tipo = "raise" THEN c.resultado
               ELSE Vector(c.mem[c.resultado.valor[1]])
      ELSE PAR_posicion(obj, arg[1])

\* the value of an expression that is computed once
Unico(S) == CHOOSE x \in S : TRUE

\* [obj.nombre(t) for t in tiempo], or [obj.nombre() for _ in tiempo]: the
\* calls made up to the first one that raises, the values before it, and the
\* exception if any
Muestrear(clase, m, obj, nombre, conTiempo, tiempo) ==
  LET arg(i) == IF conTiempo THEN <<tiempo[i]>> ELSE <<>>
      Hasta(r) ==
        LET malos == {i \in DOMAIN tiempo : r[i].tipo = "raise"}
            k == IF malos = {} THEN Len(tiempo) + 1
                 ELSE CHOOSE i \in malos : \A j \in malos : i <= j
            hechas == IF k > Len(tiempo) THEN Len(tiempo) ELSE k
        IN  [llamadas |-> [i \in 1 .. hechas |-> [nombre |-> nombre, arg |-> arg(i)]],
             valores |-> [i \in 1 .. (k - 1) |-> r[i]],
             error |-> IF malos = {} THEN None ELSE r[k]]
  IN  Unico({Hasta(r) :
               r \in {[i \in DOMAIN tiempo |->
                         Invocar(clase, m, obj, nombre, arg(i))]}})

RECURSIVE Concatenar(_)
Concatenar(ss) == IF ss = <<>> THEN <<>> ELSE Head(ss) \o Concatenar(Tail(ss))

\* a bug: the time grid would be sampled before t_max is checked
PLOT_series_guarda_tardia(clase, m, obj, t_max, num_points, series) ==
  LET tiempo == Linspace(IF Geq(Zero, t_max) THEN Rat(1, 1) ELSE t_max, num_points)
      Trazar(S) ==
        LET malas == {j \in DOMAIN series : S[j].error # None}
            j0 == IF malas = {} THEN Len(series)
                  ELSE CHOOSE j \in malas : \A i \in malas : j <= i
            llamadas == Concatenar([j \in 1 .. j0 |-> S[j].llamadas])
        IN  IF malas # {}
            THEN [resultado |-> S[j0].error,
                  traza |-> [SinTraza EXCEPT !.estilo = 1, !.llamadas = llamadas]]
            ELSE IF Geq(Zero, t_max)
            THEN [resultado |-> Raise(TiempoMaximoInvalido),
                  traza |-> [SinTraza EXCEPT !.estilo = 1, !.llamadas = llamadas]]
            ELSE [resultado |-> None,
                  traza |-> [estilo |-> 1, llamadas |-> llamadas, figuras |-> 1,
                             curvas |-> [j \in DOMAIN series |->
                                           [serie |-> series[j].nombre,
                                            datos |-> S[j].valores]],
                             shows |-> 1]]
  IN  Unico({Trazar(S) :
               S \in {[j \in DOMAIN series |->
                         Muestrear(clase, m, obj, series[j].nombre,
                                   series[j].conTiempo, tiempo)]}})

\* the common body of the plotting functions: configure the style, reject
\* t_max <= 0, sample each series over the grid in order, then one figure
\* with one curve per series and one plt.show()
PLOT_series(clase, m, obj, t_max, num_points, series) ==
  IF Geq(Zero, t_max)
  THEN [resultado |-> Raise(TiempoMaximoInvalido),
        traza |-> [SinTraza EXCEPT !.estilo = 1]]
  ELSE LET Trazar(S) ==
             LET malas == {j \in DOMAIN series : S[j].error # None}
                 j0 == IF malas = {} THEN Len(series)
                       ELSE CHOOSE j \in malas : \A i \in malas : j <= i
                 llamadas == Concatenar([j \in 1 .. j0 |-> S[j].llamadas])
             IN  IF malas # {}
                 THEN [resultado |-> S[j0].error,
                       traza |-> [SinTraza EXCEPT !.estilo = 1,
                                                  !.llamadas = llamadas]]
                 ELSE [resultado |-> None,
                       traza |-> [estilo |-> 1, llamadas |-> llamadas, figuras |-> 1,
                                  curvas |-> [j \in DOMAIN series |->
                                                [serie |-> series[j].nombre,
                                                 datos |-> S[j].valores]],
                                  shows |-> 1]]
       IN  Unico({Trazar(S) :
                    S \in {[j \in DOMAIN series |->
                              Muestrear(clase, m, obj, series[j].nombre,
                                        series[j].conTiempo,
                                        Linspace(t_max, num_points))]}})

Serie(nombre, conTiempo) == [nombre |-> nombre, conTiempo |-> conTiempo]

plot_mru(mru_obj, t_max, num_points) ==
  PLOT_series("MRU", <<>>, mru_obj, t_max, num_points,
              <<Serie("posicion", TRUE), Serie("velocidad", FALSE)>>)

plot_mruv(mruv_obj, t_max, num_points) ==
  PLOT_series("MRUV", <<>>, mruv_obj, t_max, num_points,
              <<Serie("posicion", TRUE), Serie("velocidad", TRUE),
                Serie("aceleracion", FALSE)>>)

\* a bug: a sample below the ground would be skipped and the loop would go on
plot_parabolico_sin_break(parabolico_obj, t_max, num_points) ==
  IF Geq(Zero, t_max)
  THEN [resultado |-> Raise(TiempoMaximoInvalido),
        traza |-> [SinTraza EXCEPT !.estilo = 1]]
  ELSE LET tiempo == Linspace(t_max, num_points)
           r == [i \in DOMAIN tiempo |-> PAR_posicion(parabolico_obj, tiempo[i])]
           arriba == {i \in DOMAIN tiempo : Geq(r[i].valor[2], Zero)}
           orden == CHOOSE f \in [1 .. Cardinality(arriba) -> arriba] :
                      \A a, b \in 1 .. Cardinality(arriba) : a < b => f[a] < f[b]
       IN  [resultado |-> None,
            traza |-> [estilo |-> 1,
                       llamadas |-> [i \in DOMAIN tiempo |->
                                       [nombre |-> "posicion", arg |-> <<tiempo[i]>>]],
                       figuras |-> 1,
                       curvas |-> <<[serie |-> "trayectoria",
                                     datos |-> [i \in 1 .. Cardinality(arriba) |->
                                                  r[orden[i]]]]>>,
                       shows |-> 1]]

\* the loop appends (x, y) while y >= 0 and breaks at the first y < 0
plot_parabolico(parabolico_obj, t_max, num_points) ==
  IF Geq(Zero, t_max)
  THEN [resultado |-> Raise(TiempoMaximoInvalido),
        traza |-> [SinTraza EXCEPT !.estilo = 1]]
  ELSE LET tiempo == Linspace(t_max, num_points)
           r == [i \in DOMAIN tiempo |-> PAR_posicion(parabolico_obj, tiempo[i])]
           abajo == {i \in DOMAIN tiempo : Lt(r[i].valor[2], Zero)}
           k == IF abajo = {} THEN Len(tiempo) + 1
                ELSE CHOOSE i \in abajo : \A j \in abajo : i <= j
           hechas == IF k > Len(tiempo) THEN Len(tiempo) ELSE k
       IN  [resultado |-> None,
            traza |-> [estilo |-> 1,
                       llamadas |-> [i \in 1 .. hechas |->
                                       [nombre |-> "posicion", arg |-> <<tiempo[i]>>]],
                       figuras |-> 1,
                       curvas |-> <<[serie |-> "trayectoria",
                                     datos |-> [i \in 1 .. (k - 1) |-> r[i]]]>>,
                       shows |-> 1]]

\* after the three curves are shown, a second figure with the circle of
\* radius mcu_obj.radio is created and shown
plot_mcu(mcu_obj, t_max, num_points) ==
  LET Circulo(p) ==
        IF p.resultado # None THEN p
        ELSE [resultado |-> None,
              traza |-> [p.traza EXCEPT
                           !.figuras = 2,
                           !.curvas = Append(@, [serie |-> "trayectoria",
                                                 datos |-> <<Float(mcu_obj.radio)>>]),
                           !.shows = 2]]
  IN  Unico({Circulo(p) :
               p \in {PLOT_series("MCU", <<>>, mcu_obj, t_max, num_points,
                                  <<Serie("posicion_angular", TRUE),
                                    Serie("velocidad_angular", FALSE),
                                    Serie("aceleracion_centripeta", FALSE)>>)}})

plot_mcuv(mcuv_obj, t_max, num_points) ==
  PLOT_series("MCUV", <<>>, mcuv_obj, t_max, num_points,
              <<Serie("posicion_angular", TRUE), Serie("velocidad_angular", TRUE),
                Serie("aceleracion_angular", FALSE),
                Serie("aceleracion_centripeta", TRUE),
                Serie("aceleracion_total", TRUE)>>)

\* the arrays posicion returns are local to the call
plot_movimiento_espacial(m, espacial_obj, t_max, num_points) ==
  PLOT_series("Espacial", m, espacial_obj, t_max, num_points,
              <<Serie("posicion", TRUE)>>)

\* the motion plot_mruv is called with
InitGraficos ==
  /\ mruv = MRUV_init(Rat(1, 1), Rat(-1, 1), Rat(2, 1))
  /\ objeto = Ninguno
  /\ mem = <<>>
  /\ metodo = ""
  /\ argumento = <<>>
  /\ origen = SinOrigen
  /\ resultado = None
  /\ traza = SinTraza
  /\ logging = LOG_Importado

\* a stand-in object is given the height it reports
PAR_Construir ==
  \E c0 \in {Rat(k, 1) : k \in 0 .. MaxAltura},
     c1 \in {Rat(k, 1) : k \in -MaxAltura .. 0},
     c2 \in {Rat(k, 1) : k \in {-1, 1}} :
    Construir(<<c0, c1, c2>>,
              Instancia([clase |-> "Mock", c0 |-> c0, c1 |-> c1, c2 |-> c2]))

\* the rectilinear and circular motions that are plotted
PLOT_Movimientos ==
  {MRU_init(Rat(1, 1), Rat(2, 1)), MRU_init(Zero, Rat(-1, 1)),
   MCU_init(Rat(2, 1), Zero, Rat(1, 1)), MCU_init(Rat(1, 1), Rat(1, 1), Zero),
   MCUV_init(Rat(2, 1), Zero, Rat(1, 1), Rat(1, 1)),
   MCUV_init(Rat(1, 1), Rat(1, 1), Rat(-1, 1), Zero)}

PLOT_Construir ==
  \E r \in PLOT_Movimientos : Construir(<<>>, r)

\* a call plot_x(obj, t_max, num_points) whose outcome and effects are p
Graficar(nombre, t_max, num_points, p) ==
  /\ metodo' = nombre
  /\ argumento' = <<t_max, Rat(num_points, 1)>>
  /\ origen' = SinOrigen
  /\ resultado' = p.resultado
  /\ traza' = p.traza
  /\ UNCHANGED <<mruv, objeto, mem, logging>>

PLOT_CallMru ==
  /\ objeto.clase = "MRU"
  /\ \E t_max \in TiemposMaximos, n \in 1 .. MaxPuntos :
       \E p \in {plot_mru(objeto, t_max, n)} :
         Graficar("plot_mru", t_max, n, p)

PLOT_CallMruv ==
  \E t_max \in TiemposMaximos, n \in 1 .. MaxPuntos :
    \E p \in {plot_mruv(mruv, t_max, n)} :
      Graficar("plot_mruv", t_max, n, p)

PLOT_CallParabolico ==
  /\ objeto.clase = "Mock"
  /\ \E t_max \in TiemposMaximos, n \in 1 .. MaxPuntos :
       \E p \in {plot_parabolico(objeto, t_max, n)} :
         Graficar("plot_parabolico", t_max, n, p)

PLOT_CallMcu ==
  /\ objeto.clase = "MCU"
  /\ \E t_max \in TiemposMaximos, n \in 1 .. MaxPuntos :
       \E p \in {plot_mcu(objeto, t_max, n)} :
         Graficar("plot_mcu", t_max, n, p)

PLOT_CallMcuv ==
  /\ objeto.clase = "MCUV"
  /\ \E t_max \in TiemposMaximos, n \in 1 .. MaxPuntos :
       \E p \in {plot_mcuv(objeto, t_max, n)} :
         Graficar("plot_mcuv", t_max, n, p)

PLOT_CallMovimientoEspacial ==
  /\ objeto.clase = "Espacial"
  /\ \E t_max \in TiemposMaximos, n \in 1 .. MaxPuntos :
       \E p \in {plot_movimiento_espacial(mem, objeto, t_max, n)} :
         Graficar("plot_movimiento_espacial", t_max, n, p)

NextGraficos ==
  \/ PLOT_Construir
  \/ ESP_Construir
  \/ PAR_Construir
  \/ PLOT_CallMru
  \/ PLOT_CallMruv
  \/ PLOT_CallParabolico
  \/ PLOT_CallMcu
  \/ PLOT_CallMcuv
  \/ PLOT_CallMovimientoEspacial

SpecGraficos == InitGraficos /\ [][NextGraficos]_vars

C_Graficadores ==
  {"plot_mru", "plot_mruv", "plot_parabolico", "plot_mcu", "plot_mcuv",
   "plot_movimiento_espacial"}

\* C24: every plotting function raises ValueError('El tiempo maximo debe ser
\* positivo ...') when t_max <= 0, before any method of the motion object is
\* called and before any figure is created or shown.
C24_TiempoMaximoPositivo ==
  (metodo \in C_Graficadores /\ Geq(Zero, argumento[1]))
    => /\ resultado = Raise(TiempoMaximoInvalido)
       /\ traza.llamadas = <<>>
       /\ traza.figuras = 0
       /\ traza.curvas = <<>>
       /\ traza.shows = 0

\* plot_mcuv rejected t_max = 0 for a constructed motion
C24_Witness ==
  /\ metodo = "plot_mcuv"
  /\ objeto.clase = "MCUV"
  /\ argumento[1] = Zero
  /\ resultado = Raise(TiempoMaximoInvalido)
  /\ traza.estilo = 1
  /\ traza.llamadas = <<>>

\* the calls of the method nombre in the trace
C_Llamadas(nombre) ==
  {i \in DOMAIN traza.llamadas : traza.llamadas[i].nombre = nombre}

\* C25: plot_mru called with a MovimientoRectilineoUniforme and t_max > 0
\* completes without raising: it obtains one position and one velocity per
\* sampled time from the object, draws exactly one position curve and one
\* velocity curve, and shows the figure exactly once.
C25_PlotMruCompleta ==
  (metodo = "plot_mru" /\ objeto.clase = "MRU" /\ Lt(Zero, argumento[1]))
    => /\ resultado = None
       /\ Cardinality(C_Llamadas("posicion")) = argumento[2].p
       /\ Cardinality(C_Llamadas("velocidad")) = argumento[2].p
       /\ Len(traza.curvas) = 2
       /\ traza.curvas[1].serie = "posicion"
       /\ traza.curvas[2].serie = "velocidad"
       /\ traza.shows = 1

\* the heights of the samples plot_parabolico(objeto, t_max, num_points) walks
C_Alturas ==
  LET tiempo == Linspace(argumento[1], argumento[2].p)
  IN  [i \in DOMAIN tiempo |-> PAR_posicion(objeto, tiempo[i]).valor[2]]

\* C26: plot_parabolico stops at the ground: the plotted points are exactly
\* the longest prefix of the samples whose y is >= 0; the first sample with
\* y < 0 ends the loop, so no later sample is plotted and posicion is not
\* called for any time after that sample.
C26_DetenerEnSuelo ==
  (metodo = "plot_parabolico" /\ Lt(Zero, argumento[1]))
    => LET ys == C_Alturas
           tiempo == Linspace(argumento[1], argumento[2].p)
           puntos == traza.curvas[1].datos
           n == Len(puntos)
       IN  /\ Len(traza.curvas) = 1
           /\ n <= Len(ys)
           /\ \A i \in 1 .. n :
                /\ Geq(ys[i], Zero)
                /\ puntos[i] = PAR_posicion(objeto, tiempo[i])
           /\ n < Len(ys) => Lt(ys[n + 1], Zero)
           /\ Len(traza.llamadas) = (IF n < Len(ys) THEN n + 1 ELSE n)
           /\ \A i \in DOMAIN traza.llamadas :
                traza.llamadas[i] = [nombre |-> "posicion", arg |-> <<tiempo[i]>>]

\* the second of three samples was below the ground and the third above it
\* again: one point was plotted and posicion was called twice
C26_Witness ==
  /\ metodo = "plot_parabolico"
  /\ Lt(Zero, argumento[1])
  /\ argumento[2].p = 3
  /\ Lt(C_Alturas[2], Zero)
  /\ Geq(C_Alturas[3], Zero)
  /\ Len(traza.curvas[1].datos) = 1
  /\ Len(traza.llamadas) = 2

(***************************************************************************)
(* logger.py: setup_logger and the module-level default configuration.     *)
(* A handler is named by its kind: "console" and "file" are created by     *)
(* setup_logger, "externo" by other code through the logging module.       *)
(***************************************************************************)
\* other code adds handlers to a logger while it has fewer than MaxManejadores
MaxManejadores == 2

NombresLogger == {"cinetica", "cinetica.mru"}

\* the level arguments callers pass
NivelesArgumento == {"DEBUG", "debug", "INFO", "WARNING", "TRACE"}

\* str.upper() on the level names above
Upper(nivel) == IF nivel = "debug" THEN "DEBUG" ELSE nivel

\* LOG_LEVELS.get(level.upper(), LOG_LEVELS[DEFAULT_LEVEL])
LOG_get_log_level(level) ==
  LET LOG_LEVELS == [DEBUG |-> DEBUG, INFO |-> INFO, WARNING |-> WARNING]
  IN  IF Upper(level) \in DOMAIN LOG_LEVELS THEN LOG_LEVELS[Upper(level)] ELSE INFO

\* a bug: only the root logger would count as configured
LOG_is_configured_solo_raiz(L, name, is_root) ==
  is_root /\ L.root_logger # "None"

\* _is_configured(logger, is_root)
LOG_is_configured(L, name, is_root) ==
  IF is_root /\ L.root_logger # "None" THEN TRUE
  ELSE L.loggers[name].handlers # <<>>

\* logger.addHandler(h): a handler already in the list is not added again
LOG_addHandler(handlers, h) ==
  IF \E i \in DOMAIN handlers : handlers[i] = h THEN handlers ELSE Append(handlers, h)

\* logging.basicConfig(handlers=[console_handler], level=log_level): does
\* nothing when logging's root logger already has a handler
LOG_basicConfig(L, log_level) ==
  IF L.loggers["root"].handlers # <<>> THEN L
  ELSE [L EXCEPT !.loggers["root"].handlers = <<"console">>,
                 !.loggers["root"].level = log_level]

\* setup_logger(name, level, log_file, propagate=propagate): the logging state
\* it leaves; the logger named name is returned
LOG_setup_logger(L, name, level, log_file, propagate) ==
  LET is_root == (name = "cinetica" \/ name = "root")
  IN  IF LOG_is_configured(L, name, is_root) THEN L
      ELSE LET log_level == LOG_get_log_level(level)
               L1 == [L EXCEPT !.loggers[name].level = log_level]
               L2 == IF is_root
                     THEN LOG_basicConfig(
                            [L1 EXCEPT !.loggers[name].handlers = <<"console">>,
                                       !.loggers[name].propagate = propagate,
                                       !.root_logger = name],
                            log_level)
                     ELSE [L1 EXCEPT !.loggers[name].handlers =
                                        IF @ = <<>> THEN <<"console">> ELSE @,
                                     !.loggers[name].propagate = TRUE]
           IN  IF log_file
               THEN [L2 EXCEPT !.loggers[name].handlers = LOG_addHandler(@, "file")]
               ELSE L2

\* a fresh interpreter: logger.py has not been imported
InitLogger ==
  /\ mruv = MRUV_init(Zero, Zero, Zero)
  /\ objeto = Ninguno
  /\ mem = <<>>
  /\ metodo = ""
  /\ argumento = <<>>
  /\ origen = SinOrigen
  /\ resultado = None
  /\ traza = SinTraza
  /\ logging = LOG_Fresco

\* import of logger.py: the module-level 'if _root_logger is None:
\* setup_logger("cinetica")'
LOG_Importar ==
  /\ ~logging.importado
  /\ logging' = [LOG_setup_logger(logging, "cinetica", "INFO", FALSE, FALSE)
                   EXCEPT !.importado = TRUE]
  /\ metodo' = "import"
  /\ argumento' = <<>>
  /\ origen' = SinOrigen
  /\ resultado' = None
  /\ UNCHANGED <<mruv, objeto, mem, traza>>

\* a caller's setup_logger(name, level=level, log_file=..., propagate=...)
LOG_SetupLogger ==
  /\ logging.importado
  /\ \E name \in NombresLogger, level \in NivelesArgumento,
        log_file \in BOOLEAN, propagate \in BOOLEAN :
       /\ logging' = LOG_setup_logger(logging, name, level, log_file, propagate)
       /\ metodo' = "setup_logger"
       /\ argumento' = <<name, level, log_file, propagate>>
       /\ origen' = SinOrigen
       /\ resultado' = [tipo |-> "logger", valor |-> <<name>>, error |-> ""]
       /\ UNCHANGED <<mruv, objeto, mem, traza>>

\* other code: logging.getLogger(name).addHandler(logging.StreamHandler())
LOG_ExternoAddHandler ==
  \E name \in NombresLogger :
    /\ Len(logging.loggers[name].handlers) < MaxManejadores
    /\ logging' = [logging EXCEPT !.loggers[name].handlers = Append(@, "externo")]
    /\ metodo' = "addHandler"
    /\ argumento' = <<name>>
    /\ origen' = SinOrigen
    /\ resultado' = None
    /\ UNCHANGED <<mruv, objeto, mem, traza>>

\* other code: logging.getLogger(name).handlers.clear()
LOG_ExternoClear ==
  \E name \in NombresLogger :
    /\ logging.loggers[name].handlers # <<>>
    /\ logging' = [logging EXCEPT !.loggers[name].handlers = <<>>]
    /\ metodo' = "handlers.clear"
    /\ argumento' = <<name>>
    /\ origen' = SinOrigen
    /\ resultado' = None
    /\ UNCHANGED <<mruv, objeto, mem, traza>>

NextLogger ==
  \/ LOG_Importar
  \/ LOG_SetupLogger
  \/ LOG_ExternoAddHandler
  \/ LOG_ExternoClear

SpecLogger == InitLogger /\ [][NextLogger]_vars

\* C27: setup_logger(name, level=L) configures the logger it returns: after
\* the call the returned logger has level L, in whatever state the logging
\* module was before the call, after the package import included.
C27_NivelConfigurado ==
  (metodo = "setup_logger" /\ argumento[2] \in {"DEBUG", "INFO", "WARNING"})
    => logging.loggers[resultado.valor[1]].level = LOG_get_log_level(argumento[2])

\* how many console handlers created by setup_logger a logger holds
C_Consolas(l) == Cardinality({i \in DOMAIN l.handlers : l.handlers[i] = "console"})

MaxVel == 1
\* bits of the significand of a float (53 in float64)
Precision == 3

\* the float nearest to n/d, for n, d > 0: the significand m satisfies
\* 2^(Precision-1) <= m < 2^Precision, ties go to the even m
RECURSIVE RedondearPositivo(_, _)
RedondearPositivo(n, d) ==
  IF n >= (2 ^ Precision) * d
  THEN Mul(Rat(2, 1), RedondearPositivo(n, 2 * d))
  ELSE IF n < (2 ^ (Precision - 1)) * d
  THEN Mul(Rat(1, 2), RedondearPositivo(2 * n, d))
  ELSE LET m == n \div d
           resto == n % d
       IN  IF 2 * resto > d \/ (2 * resto = d /\ m % 2 = 1)
           THEN Rat(m + 1, 1)
           ELSE Rat(m, 1)

\* the float a real result is rounded to
Redondear(x) ==
  IF x.p = 0 THEN Zero
  ELSE IF x.p > 0 THEN RedondearPositivo(x.p, x.q)
  ELSE Neg(RedondearPositivo(-x.p, x.q))

\* a float with a full significand: 2^Precision + 2
REL_Grande == Rat(2 ^ Precision + 2, 1)

\* ValueError("Los vectores de velocidad deben tener la misma dimension.")
DimensionDistinta == "Los vectores de velocidad deben tener la misma dimension"

\* the vectors callers pass: 2D vectors of small and large components and
\* some 3D ones
REL_Vectores ==
  LET comps == {Rat(k, 1) : k \in -MaxVel .. MaxVel} \cup {REL_Grande}
  IN  {<<x, y>> : x \in comps, y \in {Rat(-1, 1), REL_Grande}}
      \cup {<<Rat(MaxVel, 1), Zero, Rat(-1, 1)>>, <<Rat(1, 2), Rat(1, 1), Rat(MaxVel, 1)>>}

\* V_A/B = V_A - V_B
REL_velocidad_relativa(velocidad_objeto_a, velocidad_objeto_b) ==
  IF Len(velocidad_objeto_a) # Len(velocidad_objeto_b)
  THEN Raise(DimensionDistinta)
  ELSE Vector([i \in DOMAIN velocidad_objeto_a |->
                 Redondear(Sub(velocidad_objeto_a[i], velocidad_objeto_b[i]))])

\* V_A = V_A/B + V_B
REL_velocidad_absoluta_a(velocidad_relativa_ab, velocidad_objeto_b) ==
  IF Len(velocidad_relativa_ab) # Len(velocidad_objeto_b)
  THEN Raise(DimensionDistinta)
  ELSE Vector([i \in DOMAIN velocidad_relativa_ab |->
                 Redondear(Add(velocidad_relativa_ab[i], velocidad_objeto_b[i]))])

\* a bug: the relative velocity would be added to V_A
REL_velocidad_absoluta_b_suma(velocidad_objeto_a, velocidad_relativa_ab) ==
  IF Len(velocidad_objeto_a) # Len(velocidad_relativa_ab)
  THEN Raise(DimensionDistinta)
  ELSE Vector([i \in DOMAIN velocidad_objeto_a |->
                 Redondear(Add(velocidad_objeto_a[i], velocidad_relativa_ab[i]))])

\* V_B = V_A - V_A/B
REL_velocidad_absoluta_b(velocidad_objeto_a, velocidad_relativa_ab) ==
  IF Len(velocidad_objeto_a) # Len(velocidad_relativa_ab)
  THEN Raise(DimensionDistinta)
  ELSE Vector([i \in DOMAIN velocidad_objeto_a |->
                 Redondear(Sub(velocidad_objeto_a[i], velocidad_relativa_ab[i]))])

\* a call on the MovimientoRelativo instance
REL_Llamada(nombre, arg, de, res) ==
  /\ metodo' = nombre
  /\ argumento' = arg
  /\ origen' = de
  /\ resultado' = res
  /\ UNCHANGED <<mruv, objeto, mem, traza, logging>>

REL_CallVelocidadRelativa ==
  \E a \in REL_Vectores, b \in REL_Vectores :
    REL_Llamada("velocidad_relativa", <<a, b>>, SinOrigen, REL_velocidad_relativa(a, b))

\* the relative velocity is one of the caller's, or the one the last
\* velocidad_relativa(a, b) returned, passed with the same b
REL_CallVelocidadAbsolutaA ==
  \/ \E v \in REL_Vectores, b \in REL_Vectores :
       REL_Llamada("velocidad_absoluta_a", <<v, b>>, SinOrigen,
                   REL_velocidad_absoluta_a(v, b))
  \/ /\ metodo = "velocidad_relativa"
     /\ resultado.tipo = "ndarray"
     /\ REL_Llamada("velocidad_absoluta_a", <<resultado.valor, argumento[2]>>,
                    [de |-> "velocidad_relativa", valor |-> argumento],
                    REL_velocidad_absoluta_a(resultado.valor, argumento[2]))

\* the relative velocity is one of the caller's, or the one the last
\* velocidad_relativa(a, b) returned, passed with the same a
REL_CallVelocidadAbsolutaB ==
  \/ \E a \in REL_Vectores, v \in REL_Vectores :
       REL_Llamada("velocidad_absoluta_b", <<a, v>>, SinOrigen,
                   REL_velocidad_absoluta_b(a, v))
  \/ /\ metodo = "velocidad_relativa"
     /\ resultado.tipo = "ndarray"
     /\ REL_Llamada("velocidad_absoluta_b", <<argumento[1], resultado.valor>>,
                    [de |-> "velocidad_relativa", valor |-> argumento],
                    REL_velocidad_absoluta_b(argumento[1], resultado.valor))

NextRelativo ==
  \/ REL_CallVelocidadRelativa
  \/ REL_CallVelocidadAbsolutaA
  \/ REL_CallVelocidadAbsolutaB

SpecRelativo == InitObjeto /\ [][NextRelativo]_vars

\* C29: the relative-velocity operations are mutually inverse: for vectors a
\* and b of the same dimension, velocidad_absoluta_a(velocidad_relativa(a, b),
\* b) = a and velocidad_absoluta_b(a, velocidad_relativa(a, b)) = b.
C29_InversasMutuas ==
  /\ (metodo = "velocidad_absoluta_a" /\ origen.de = "velocidad_relativa")
       => resultado = Vector(origen.valor[1])
  /\ (metodo = "velocidad_absoluta_b" /\ origen.de = "velocidad_relativa")
       => resultado = Vector(origen.valor[2])

\* the relative velocity v returned for a and b is the exact difference a - b
C_DiferenciaExacta(a, b, v) == \A i \in DOMAIN a : v[i] = Sub(a[i], b[i])

\* C29 (amended): the relative-velocity operations are mutually inverse
\* whenever velocidad_relativa(a, b) computed a - b without rounding, as it
\* does for integer components: then velocidad_absoluta_a(velocidad_relativa(
\* a, b), b) = a and velocidad_absoluta_b(a, velocidad_relativa(a, b)) = b.
C29_InversasExactas ==
  /\ (/\ metodo = "velocidad_absoluta_a"
      /\ origen.de = "velocidad_relativa"
      /\ C_DiferenciaExacta(origen.valor[1], origen.valor[2], argumento[1]))
       => resultado = Vector(origen.valor[1])
  /\ (/\ metodo = "velocidad_absoluta_b"
      /\ origen.de = "velocidad_relativa"
      /\ C_DiferenciaExacta(origen.valor[1], origen.valor[2], argumento[2]))
       => resultado = Vector(origen.valor[2])

\* b = (1/2, 1, MaxVel) was recovered from a = (MaxVel, 0, -1) and the exact
\* a - b
C29_Witness ==
  /\ metodo = "velocidad_absoluta_b"
  /\ origen.de = "velocidad_relativa"
  /\ Len(origen.valor[1]) = 3
  /\ origen.valor[1] # origen.valor[2]
  /\ argumento[1] = origen.valor[1]
  /\ C_DiferenciaExacta(origen.valor[1], origen.valor[2], argumento[2])
  /\ resultado = Vector(origen.valor[2])

(***************************************************************************)
(* MovimientoCircularUniformementeVariado as defined in circular/mcuv.py,  *)
(* next to the definition of the same name in                              *)
(* circular/movimiento_circular_uniformemente_variado.py (MCUV_ above).    *)
(***************************************************************************)
MCUV2_init(radio, posicion_angular_inicial, velocidad_angular_inicial, aceleracion_angular_inicial) ==
  IF Geq(Zero, radio)
  THEN Raise(RadioInvalido)
  ELSE Instancia([clase |-> "mcuv.MCUV",
                  radio |-> radio,
                  posicion_angular_inicial |-> posicion_angular_inicial,
                  velocidad_angular_inicial |-> velocidad_angular_inicial,
                  aceleracion_angular_inicial |-> aceleracion_angular_inicial])

MCUV2_posicion_angular(self, tiempo) ==
  IF Lt(tiempo, Zero)
  THEN Raise(InvalidArgument)
  ELSE Float(Add(Add(self.posicion_angular_inicial,
                     Mul(self.velocidad_angular_inicial, tiempo)),
                 Mul(Mul(Rat(1, 2), self.aceleracion_angular_inicial),
                     Mul(tiempo, tiempo))))

MCUV2_velocidad_angular_sin_guarda(self, tiempo) ==
  Float(Add(self.velocidad_angular_inicial,
            Mul(self.aceleracion_angular_inicial, tiempo)))

MCUV2_velocidad_angular(self, tiempo) ==
  IF Lt(tiempo, Zero)
  THEN Raise(InvalidArgument)
  ELSE Float(Add(self.velocidad_angular_inicial,
                 Mul(self.aceleracion_angular_inicial, tiempo)))

\* def aceleracion_angular(self): a call that passes a time is a TypeError
MCUV2_aceleracion_angular(self, arg) ==
  IF arg # <<>> THEN Raise(TypeError) ELSE Float(self.aceleracion_angular_inicial)

MCUV2_velocidad_tangencial(self, tiempo) ==
  Luego(MCUV2_velocidad_angular(self, tiempo), LAMBDA w : Float(Mul(w, self.radio)))

\* def aceleracion_tangencial(self): a call that passes a time is a TypeError
MCUV2_aceleracion_tangencial(self, arg) ==
  IF arg # <<>>
  THEN Raise(TypeError)
  ELSE Float(Mul(self.aceleracion_angular_inicial, self.radio))

MCUV2_aceleracion_centripeta(self, tiempo) ==
  Luego(MCUV2_velocidad_angular(self, tiempo),
        LAMBDA w : Float(Mul(Mul(w, w), self.radio)))

MCUV2_aceleracion_total(self, tiempo) ==
  Luego(MCUV2_aceleracion_tangencial(self, <<>>), LAMBDA at :
    Luego(MCUV2_aceleracion_centripeta(self, tiempo), LAMBDA ac :
      Float(Sqrt(Add(Mul(at, at), Mul(ac, ac))))))

\* both classes constructed with the same arguments; the two names are bound
\* only if both constructors return
EQ_Construir ==
  /\ objeto = Ninguno
  /\ \E radio \in Radios, th0 \in Angulos, w0 \in Omegas, alpha \in Omegas :
       LET a == MCUV2_init(radio, th0, w0, alpha)
           b == MCUV_init(radio, th0, w0, alpha)
       IN  /\ objeto' = IF a.tipo = "objeto" /\ b.tipo = "objeto"
                        THEN [clase |-> "Par", a |-> a.valor[1], b |-> b.valor[1]]
                        ELSE objeto
           /\ metodo' = "__init__"
           /\ argumento' = <<radio, th0, w0, alpha>>
           /\ origen' = [de |-> "mcuv", valor |-> <<a>>]
           /\ resultado' = b
  /\ UNCHANGED <<mruv, mem, traza, logging>>

\* the same call on both instances: resultado is the answer of
\* movimiento_circular_uniformemente_variado.py, origen that of mcuv.py
EQ_Consulta(nombre, arg, ra, rb) ==
  /\ objeto.clase = "Par"
  /\ metodo' = nombre
  /\ argumento' = arg
  /\ origen' = [de |-> "mcuv", valor |-> <<ra>>]
  /\ resultado' = rb
  /\ UNCHANGED <<mruv, objeto, mem, traza, logging>>

EQ_CallPosicionAngular ==
  \E t \in TiemposConsulta :
    EQ_Consulta("posicion_angular", <<t>>,
                MCUV2_posicion_angular(objeto.a, t), MCUV_posicion_angular(objeto.b, t))

EQ_CallVelocidadAngular ==
  \E t \in TiemposConsulta :
    EQ_Consulta("velocidad_angular", <<t>>,
                MCUV2_velocidad_angular(objeto.a, t), MCUV_velocidad_angular(objeto.b, t))

EQ_CallVelocidadTangencial ==
  \E t \in TiemposConsulta :
    EQ_Consulta("velocidad_tangencial", <<t>>,
                MCUV2_velocidad_tangencial(objeto.a, t),
                MCUV_velocidad_tangencial(objeto.b, t))

EQ_CallAceleracionCentripeta ==
  \E t \in TiemposConsulta :
    EQ_Consulta("aceleracion_centripeta", <<t>>,
                MCUV2_aceleracion_centripeta(objeto.a, t),
                MCUV_aceleracion_centripeta(objeto.b, t))

EQ_CallAceleracionTotal ==
  \E t \in TiemposConsulta :
    EQ_Consulta("aceleracion_total", <<t>>,
                MCUV2_aceleracion_total(objeto.a, t), MCUV_aceleracion_total(objeto.b, t))

EQ_CallAceleracionAngular ==
  \E arg \in TiempoOpcional :
    EQ_Consulta("aceleracion_angular", arg,
                MCUV2_aceleracion_angular(objeto.a, arg),
                MCUV_aceleracion_angular(objeto.b, arg))

EQ_CallAceleracionTangencial ==
  \E arg \in TiempoOpcional :
    EQ_Consulta("aceleracion_tangencial", arg,
                MCUV2_aceleracion_tangencial(objeto.a, arg),
                MCUV_aceleracion_tangencial(objeto.b, arg))

NextEquivalencia ==
  \/ EQ_Construir
  \/ EQ_CallPosicionAngular
  \/ EQ_CallVelocidadAngular
  \/ EQ_CallVelocidadTangencial
  \/ EQ_CallAceleracionCentripeta
  \/ EQ_CallAceleracionTotal
  \/ EQ_CallAceleracionAngular
  \/ EQ_CallAceleracionTangencial

SpecEquivalencia == InitObjeto /\ [][NextEquivalencia]_vars

C_ConTiempo ==
  {"posicion_angular", "velocidad_angular", "velocidad_tangencial",
   "aceleracion_centripeta", "aceleracion_total"}

C_SinTiempo == {"aceleracion_angular", "aceleracion_tangencial"}

\* C30: the two definitions of MovimientoCircularUniformementeVariado agree
\* on the operations they share.  For equal constructor arguments,
\* posicion_angular, velocidad_angular, velocidad_tangencial,
\* aceleracion_centripeta and aceleracion_total return equal values for every
\* t >= 0 and both raise ValueError for every t < 0; aceleracion_angular and
\* aceleracion_tangencial, called as both files define them (without a
\* time), return equal values.
C30_DefinicionesCoinciden ==
  (objeto.clase = "Par" /\ origen.de = "mcuv") =>
    /\ (metodo \in C_ConTiempo /\ Geq(argumento[1], Zero)) =>
         /\ resultado.tipo = "float"
         /\ origen.valor[1] = resultado
    /\ (metodo \in C_ConTiempo /\ Lt(argumento[1], Zero)) =>
         /\ resultado = Raise(InvalidArgument)
         /\ origen.valor[1] = Raise(InvalidArgument)
    /\ (metodo \in C_SinTiempo /\ argumento = <<>>) =>
         /\ resultado.tipo = "float"
         /\ origen.valor[1] = resultado

\* a derived query answered by both definitions for a negative time, on
\* instances whose angular velocity changes
C30_Witness ==
  /\ objeto.clase = "Par"
  /\ origen.de = "mcuv"
  /\ metodo = "aceleracion_total"
  /\ Lt(argumento[1], Zero)
  /\ objeto.a.aceleracion_angular_inicial # Zero
  /\ objeto.a.velocidad_angular_inicial # Zero
  /\ resultado.tipo = "raise"

====
